---- MODULE Spec2Model ----
(***************************************************************************)
(* Model of MiscellaneousService (apps/backend/src/miscellaneous/          *)
(* resolver.rs): the seen, review, summary and collection tables, the job  *)
(* storages, and the handlers progress_update, the summary recomputation,  *)
(* delete_seen_item and merge_metadata.                                    *)
(*                                                                         *)
(* Option<T> is modelled as a sequence of length 0 or 1: None is << >>,    *)
(* Some(x) is <<x>>.                                                       *)
(*                                                                         *)
(* A handler is an async function: it runs up to its next .await, and the  *)
(* runtime polls the other calls under way in between.  Every statement    *)
(* sent to the database, every push to a job storage and every request to  *)
(* an outside service is one step of the model; the code between two of    *)
(* them runs with the step that precedes it.  The first statement of a     *)
(* call is taken when the call arrives.  Utc::now() is `now`, which        *)
(* advances when a call returns; Utc::now().date_naive() is DateOf(now).   *)
(* A row built before the statement that writes it carries the instant     *)
(* read in the step before.                                                *)
(***************************************************************************)
EXTENDS Integers, Sequences, FiniteSets, TLC

VARIABLES
    seen,               \* the rows of the `seen` table
    seen_id_seq,        \* the table's auto-increment counter (last id given)
    metadata,           \* the `metadata` table: id -> the row's lot,
                        \* source and identifier
    after_media_seen,   \* SqliteStorage<AfterMediaSeenJob>: the pushed jobs
    now,                \* Utc::now(), in ticks
    last,               \* the latest handler execution: input and outcome
    job_storage_up,     \* whether a push to a job storage succeeds
    summary,            \* the rows of the `summary` table
    summary_id_seq,     \* that table's auto-increment counter
    recalculate_user_summary, \* SqliteStorage<RecalculateUserSummaryJob>
    review,             \* the rows of the `review` table
    review_id_seq,      \* that table's auto-increment counter
    collection,         \* the rows of the `collection` table
    metadata_to_collection, \* the rows of the `metadata_to_collection` table
    collection_id_seq,  \* the auto-increment counter of `collection`
    user_created,       \* SqliteStorage<UserCreatedJob>: the jobs pushed or
                        \* delivered, each with the position of its execution
    user,               \* the rows of the `user` table
    user_id_seq,        \* that table's auto-increment counter
    register,           \* the register_user calls under way
    allow_registration, \* config.users.allow_registration
    allow_changing_username, \* config.users.allow_changing_username
    user_to_metadata,   \* the rows of the `user_to_metadata` table
    genre,              \* the rows of the `genre` table
    genre_id_seq,       \* that table's auto-increment counter
    metadata_to_genre,  \* the rows of the `metadata_to_genre` table
    exercise,           \* the rows of the `exercise` table
    exercise_id_seq,    \* that table's auto-increment counter
    file_storage,       \* the uploads made through FileStorageService
    update_exercise,    \* SqliteStorage<UpdateExerciseJob>: the jobs pushed,
                        \* each with the state of its execution
    calls               \* the other calls under way: for each the statement
                        \* it runs next and its local variables

vars == <<seen, seen_id_seq, metadata, after_media_seen, now, last,
          job_storage_up, summary, summary_id_seq, recalculate_user_summary,
          review, review_id_seq, collection, metadata_to_collection,
          collection_id_seq, user_created, user, user_id_seq, register,
          allow_registration, allow_changing_username, user_to_metadata,
          genre, genre_id_seq, metadata_to_genre, exercise, exercise_id_seq,
          file_storage, update_exercise, calls>>

\* the user table with what belongs to registration, the exercise table
\* with the file storage, and the genres of the metadata
users_config == <<allow_registration, allow_changing_username>>
account_tables == <<user, user_id_seq, register, users_config>>
genre_tables == <<genre, genre_id_seq, metadata_to_genre>>
fitness_tables == <<exercise, exercise_id_seq, file_storage, update_exercise>>

\* the tables and storages that progress_update neither reads nor writes
summary_tables == <<summary, summary_id_seq, recalculate_user_summary>>
coordinator_tables == <<review, review_id_seq, collection,
                        metadata_to_collection, collection_id_seq,
                        user_created, account_tables, fitness_tables,
                        user_to_metadata, genre_tables>>

----------------------------------------------------------------------------
(* Bounds *)

MaxCalls == 2       \* requests served in one behaviour
TicksPerDay == 2    \* instants per calendar day
FirstNow == 2       \* the instant of the first request

\* whether the schema declares the unique index that a statement would
\* violate: on metadata (lot, source, identifier), on collection (user_id,
\* name), on user (name), on genre (name).  The migrations are not part of
\* the sources.
UniqueIndexes == {"Unique", "None"}

None == << >>
Some(x) == <<x>>
IsSome(o) == o # << >>
Unwrap(o) == o[1]

DateOf(t) == t \div TicksPerDay
Today == DateOf(now)

\* the users, the metadata rows and the values a request may carry
UserIds == {1, 2}

\* a row of the user table; the first user registered is the admin
UserModel(id, name, lot, yank_integrations) ==
    [id |-> id, name |-> name, lot |-> lot,
     yank_integrations |-> yank_integrations]

UserName(id) == IF id = 1 THEN "ann" ELSE IF id = 2 THEN "bob" ELSE "cat"

\* the users are registered, no registration is under way and the
\* exercise library has not been fetched
UsersRegisteredAndIdle ==
    /\ user = {UserModel(u, UserName(u),
                         IF u = 1 THEN "Admin" ELSE "Normal", None) :
                 u \in UserIds}
    /\ user_id_seq = Cardinality(UserIds)
    /\ register = << >>
    /\ allow_registration = TRUE
    /\ allow_changing_username = TRUE
    /\ exercise = {}
    /\ exercise_id_seq = 0
    /\ file_storage = << >>
    /\ update_exercise = << >>
    /\ calls = << >>

\* a row of the genre table and a row of the metadata_to_genre table
GenreRow(id, name) == [id |-> id, name |-> name]
MetadataToGenre(metadata_id, genre_id) ==
    [metadata_id |-> metadata_id, genre_id |-> genre_id]

\* as above, and no genre is stored
RegisteredAndIdle ==
    /\ UsersRegisteredAndIdle
    /\ genre = {}
    /\ genre_id_seq = 0
    /\ metadata_to_genre = {}

\* the columns of a metadata row that the handlers read
MetadataModel(lot, source, identifier) ==
    [lot |-> lot, source |-> source, identifier |-> identifier]

\* the metadata table of every scenario: a show, a podcast and a book
InitMetadata ==
    (1 :> MetadataModel("Show", "Tmdb", "s1"))
    @@ (2 :> MetadataModel("Podcast", "Listennotes", "p1"))
    @@ (3 :> MetadataModel("Book", "Openlibrary", "b1"))
MetadataIds == DOMAIN InitMetadata
ProgressValues == {60, 100, 101}
Identifiers == {"a"}
SeasonNumbers == {1}
EpisodeNumbers == {1}

OptionOf(S) == {None} \cup {Some(x) : x \in S}

Lots == {"Show", "Podcast", "Book"}

\* The locator fields a request for metadata of the given lot may carry.  The
\* fields of another lot are never read by the handler; requests leave them
\* empty.
LocatorFields ==
    [lot \in Lots |->
        [show_season_number :
            IF lot = "Show" THEN OptionOf(SeasonNumbers) ELSE {None},
         show_episode_number :
            IF lot = "Show" THEN OptionOf(EpisodeNumbers) ELSE {None},
         podcast_episode_number :
            IF lot = "Podcast" THEN OptionOf(EpisodeNumbers) ELSE {None}]]

\* A request dates the progress today or yesterday, or leaves the date out.
DayOffsets == OptionOf({-1, 0})
RequestDate(offset, t) ==
    IF offset = None THEN None ELSE Some(DateOf(t) + Unwrap(offset))

ProgressChoices == OptionOf(ProgressValues)
IdentifierChoices == OptionOf(Identifiers)

\* The handler reads input.date only when the progress is 100, and the locator
\* fields only when it creates a record, which a Drop never does.  Requests
\* leave the fields that are not read empty.
DayOffsetsOf ==
    [progress \in ProgressChoices |->
        IF progress = Some(100) THEN DayOffsets ELSE {None}]
LocatorFieldsOf ==
    [progress \in ProgressChoices |->
        [lot \in Lots |->
            IF progress = None THEN LocatorFields["Book"]
            ELSE LocatorFields[lot]]]

MakeInput(metadata_id, progress, date, loc, identifier) ==
    [metadata_id |-> metadata_id,
     progress |-> progress,
     date |-> date,
     show_season_number |-> loc.show_season_number,
     show_episode_number |-> loc.show_episode_number,
     podcast_episode_number |-> loc.podcast_episode_number,
     identifier |-> identifier]

NoInput ==
    [metadata_id |-> 0, progress |-> None, date |-> None,
     show_season_number |-> None, show_episode_number |-> None,
     podcast_episode_number |-> None, identifier |-> None]

----------------------------------------------------------------------------
(* progress_update: queries *)

\* Seen::find() filtered by progress < 100, user, dropped != true, metadata
prev_seen(S, user_id, metadata_id) ==
    {r \in S : /\ r.progress < 100
               /\ r.user_id = user_id
               /\ r.dropped # TRUE
               /\ r.metadata_id = metadata_id}

\* variant: the rows an ascending order may put first
order_by_asc_first(R) ==
    {r \in R : \A q \in R : r.last_updated_on <= q.last_updated_on}

\* the rows that order_by_desc(LastUpdatedOn) may put first (ties are the
\* database's choice)
order_by_desc_first(R) ==
    {r \in R : \A q \in R : q.last_updated_on <= r.last_updated_on}

\* variant: the lookup only considers records still in progress
identifier_lookup_unfinished_only(S, identifier) ==
    {r \in S : IsSome(identifier) /\ r.identifier = identifier
               /\ r.progress < 100}

\* Seen::find().filter(Identifier.eq(input.identifier)): `identifier = NULL`
\* selects no row when the input carries no identifier
identifier_lookup(S, identifier) ==
    {r \in S : IsSome(identifier) /\ r.identifier = identifier}

\* the Drop branch's query: user, dropped != true, metadata
drop_candidates(S, user_id, metadata_id) ==
    {r \in S : /\ r.user_id = user_id
               /\ r.dropped # TRUE
               /\ r.metadata_id = metadata_id}

----------------------------------------------------------------------------
(* progress_update: classification *)

\* variant: a completion with a date updates the active record whatever the
\* date is
ProgressUpdateAction_active_first(input, prev_is_empty, today) ==
    IF input.progress = None THEN "Drop"
    ELSE IF Unwrap(input.progress) = 100
         THEN IF input.date = None THEN "InThePast"
              ELSE IF ~prev_is_empty THEN "Update"
                   ELSE IF today = Unwrap(input.date) THEN "Now"
                        ELSE "InThePast"
         ELSE IF prev_is_empty THEN "JustStarted" ELSE "Update"

ProgressUpdateAction(input, prev_is_empty, today) ==
    IF input.progress = None THEN "Drop"
    ELSE IF Unwrap(input.progress) = 100
         THEN IF input.date = None THEN "InThePast"
              ELSE IF today = Unwrap(input.date)
                   THEN IF prev_is_empty THEN "Now" ELSE "Update"
                   ELSE "InThePast"
         ELSE IF prev_is_empty THEN "JustStarted" ELSE "Update"

----------------------------------------------------------------------------
(* progress_update: the three branches *)

\* variant: every update stamps finished_on
update_seen_always_finished(r, progress, t) ==
    [r EXCEPT !.progress = progress,
              !.last_updated_on = t,
              !.finished_on = Some(DateOf(t))]

\* variant: no update stamps finished_on
update_seen_never_finished(r, progress, t) ==
    [r EXCEPT !.progress = progress, !.last_updated_on = t]

\* Update branch: the row written by last_seen.update()
update_seen(r, progress, t) ==
    [r EXCEPT !.progress = progress,
              !.last_updated_on = t,
              !.finished_on = IF progress = 100 THEN Some(DateOf(t)) ELSE @]

\* Drop branch: the row written by last_seen.update()
drop_seen(r, t) ==
    [r EXCEPT !.dropped = TRUE, !.last_updated_on = t]

\* variant: the submitted date is not stored
create_finished_on_unset(action, input) ==
    None

create_finished_on(action, input) ==
    IF action = "JustStarted" THEN None ELSE input.date

\* variant: a started record keeps the progress submitted
create_progress_submitted(action, input) ==
    IF action = "JustStarted" THEN Unwrap(input.progress) ELSE 100

create_progress(action, input) ==
    IF action = "JustStarted" THEN 0 ELSE 100

create_started_on(action, t) ==
    IF action = "JustStarted" THEN Some(DateOf(t)) ELSE None

\* which unwrap() of a locator field panics, by lot
locator_unwrap_panics(lot, input) ==
    IF lot = "Show"
    THEN input.show_season_number = None \/ input.show_episode_number = None
    ELSE IF lot = "Podcast"
         THEN input.podcast_episode_number = None
         ELSE FALSE

create_extra_information(lot, input) ==
    IF lot = "Show"
    THEN Some([tag |-> "Show",
               season |-> Unwrap(input.show_season_number),
               episode |-> Unwrap(input.show_episode_number)])
    ELSE IF lot = "Podcast"
         THEN Some([tag |-> "Podcast",
                    episode |-> Unwrap(input.podcast_episode_number)])
         ELSE None

\* create branch: the row written by seen_insert.insert(); the fields the
\* ActiveModel leaves NotSet take the column defaults (dropped = false, no
\* extra_information)
seen_insert(id, action, input, user_id, lot, t) ==
    [id |-> id,
     progress |-> create_progress(action, input),
     user_id |-> user_id,
     metadata_id |-> input.metadata_id,
     started_on |-> create_started_on(action, t),
     finished_on |-> create_finished_on(action, input),
     last_updated_on |-> t,
     identifier |-> input.identifier,
     dropped |-> FALSE,
     extra_information |-> create_extra_information(lot, input)]

AfterMediaSeenJob(seen_item, lot) ==
    [seen |-> seen_item, metadata_lot |-> lot]

----------------------------------------------------------------------------
(* The calls under way *)

Remove(q, k) == SubSeq(q, 1, k - 1) \o SubSeq(q, k + 1, Len(q))

\* no call is under way
Idle == calls = << >>

\* the calls under way once another call has arrived: none of them has run
\* alone
Overlapped == [k \in DOMAIN calls |-> [calls[k] EXCEPT !.alone = FALSE]]

\* how a step of a call ends: the call returns `to` to the client, or it
\* stands at its next statement with the locals `to`
Return(outcome) == [returns |-> TRUE, to |-> outcome]
Goto(c) == [returns |-> FALSE, to |-> c]

\* the first step of a call that arrives
Arrives(end) ==
    IF end.returns
    THEN /\ calls' = Overlapped
         /\ now' = now + 1
         /\ last' = end.to
    ELSE /\ calls' = Append(Overlapped, end.to)
         /\ UNCHANGED <<now, last>>

\* a later step of the call calls[k]
Ends(k, end) ==
    IF end.returns
    THEN /\ calls' = Remove(calls, k)
         /\ now' = now + 1
         /\ last' = end.to
    ELSE /\ calls' = [calls EXCEPT ![k] = end.to]
         /\ UNCHANGED <<now, last>>

\* the calls and the job executions that have arrived: those that have
\* returned, each of which advanced the clock, and those under way
CallsMade == (now - FirstNow) + Len(calls)

\* the result of .one() on a query whose first rows may be R
OneOf(R) == IF R = {} THEN {None} ELSE {Some(r) : r \in R}

----------------------------------------------------------------------------
(* yank_integrations_data_for_user: the loop over the progress reported *)

ErrNoUserFound == "No user found"

YankDataOutcome(c, kind, count, error) ==
    [op |-> "yank_integrations_data_for_user", user_id |-> c.user_id,
     kind |-> kind, count |-> count, error |-> error,
     alone |-> c.alone, before |-> c.before]

\* `continue` for every progress outside 1..=95
RECURSIVE skip_out_of_range(_)
skip_out_of_range(progress_updates) ==
    IF progress_updates = << >> THEN << >>
    ELSE IF Head(progress_updates).progress \in 1..95
         THEN progress_updates
         ELSE skip_out_of_range(Tail(progress_updates))

\* the head of the loop: the next progress in range is counted and
\* commit_media() is called for it; after the last one the count is returned
yank_loop(c) ==
    LET rest == skip_out_of_range(c.progress_updates)
    IN IF rest = << >>
       THEN Return(YankDataOutcome(c, "Ok", c.updated_count, ""))
       ELSE Goto([c EXCEPT !.progress_updates = rest,
                           !.updated_count = @ + 1,
                           !.media = MetadataModel(Head(rest).lot,
                                                   Head(rest).source,
                                                   Head(rest).identifier),
                           !.pc = "media_exists_in_database"])

----------------------------------------------------------------------------
(* progress_update: outcomes *)

\* what the handler returns: to a replay the metadata of the record found,
\* else the id of the record written
Result(replayed, kind, id, error, pushed) ==
    [replayed |-> replayed, kind |-> kind, id |-> id, error |-> error,
     pushed |-> pushed]

Outcome(c, r) ==
    [op |-> "progress_update", user_id |-> c.user_id, input |-> c.input,
     action |-> c.action, replayed |-> r.replayed,
     kind |-> r.kind, id |-> r.id, error |-> r.error, pushed |-> r.pushed,
     alone |-> c.alone, before |-> c.before]

ErrNoSeenUnderway == "There is no seen item underway"
ErrNoRecord == "The record does not exit"

\* progress_update returns r: to the client, or to
\* yank_integrations_data_for_user, which discards an error with .ok() and
\* goes on with the next progress
progress_update_returns(c, r) ==
    IF c.op = "progress_update" THEN Return(Outcome(c, r))
    ELSE IF r.kind = "Panic"
         THEN Return(YankDataOutcome(c, "Panic", 0, ""))
         ELSE yank_loop([c EXCEPT !.progress_updates = Tail(@)])

----------------------------------------------------------------------------
(* progress_update: one step for each awaited statement *)

\* what a caller of progress_update could have read when its call arrived
ProgressTables ==
    [seen |-> seen, seen_id_seq |-> seen_id_seq,
     after_media_seen |-> after_media_seen, metadata |-> metadata]

\* a call of progress_update before its first statement
ProgressUpdateCall(input, user_id) ==
    [op |-> "progress_update", user_id |-> user_id, input |-> input,
     pc |-> "prev_seen", prev_seen |-> None, action |-> "none",
     last_seen |-> None, lot |-> "", utc_now |-> 0, seen_item |-> None,
     alone |-> Idle, before |-> ProgressTables]

\* the locals once the query for the records under way has answered: of its
\* result the handler reads whether it is empty and its first row
after_prev_seen(c, prev, first, today) ==
    [c EXCEPT !.prev_seen = first,
              !.action = ProgressUpdateAction(c.input, prev = {}, today),
              !.pc = "identifier"]

\* the tables a step of progress_update leaves alone
progress_frame == <<job_storage_up, summary_tables, coordinator_tables>>

\* the call arrives and its first query is answered
progress_update(input, user_id) ==
    LET prev == prev_seen(seen, user_id, input.metadata_id)
    IN /\ \E first \in OneOf(order_by_desc_first(prev)) :
            Arrives(Goto(after_prev_seen(ProgressUpdateCall(input, user_id),
                                         prev, first, Today)))
       /\ UNCHANGED <<seen, seen_id_seq, after_media_seen, metadata,
                      progress_frame>>

\* the same query in a call made by yank_integrations_data_for_user
ProgressUpdateFindsPrevSeen ==
    \E k \in DOMAIN calls :
      LET c == calls[k]
          prev == prev_seen(seen, c.user_id, c.input.metadata_id)
      IN /\ c.pc = "prev_seen"
         /\ \E first \in OneOf(order_by_desc_first(prev)) :
              Ends(k, Goto(after_prev_seen(c, prev, first, Today)))
         /\ UNCHANGED <<seen, seen_id_seq, after_media_seen, metadata,
                        progress_frame>>

\* the lookup of the identifier: a record found is a replay, which returns
\* its metadata; else the branch of the action is taken.  The Update branch
\* reads Utc::now() for the row it builds before its UPDATE is awaited
ProgressUpdateFindsIdentifier ==
    \E k \in DOMAIN calls :
      LET c == calls[k]
          meta == identifier_lookup(seen, c.input.identifier)
      IN /\ c.pc = "identifier"
         /\ IF meta # {}
            THEN \E m \in meta :
                   Ends(k, progress_update_returns(
                             c, Result(TRUE, "Ok", m.metadata_id, "", FALSE)))
            ELSE Ends(k, Goto([c EXCEPT
                         !.utc_now = IF c.action = "Update" THEN now ELSE @,
                         !.pc = CASE c.action = "Update" -> "update"
                                  [] c.action = "Drop" -> "last_seen"
                                  [] OTHER -> "find_metadata"]))
         /\ UNCHANGED <<seen, seen_id_seq, after_media_seen, metadata,
                        progress_frame>>

\* Update branch: the UPDATE of prev_seen[0] writes the columns set to the
\* row of that id; with no such row left, update() fails and unwrap() panics
ProgressUpdateUpdates ==
    \E k \in DOMAIN calls :
      LET c == calls[k]
          rows == {r \in seen : r.id = Unwrap(c.prev_seen).id}
      IN /\ c.pc = "update"
         /\ IF rows = {}
            THEN /\ Ends(k, progress_update_returns(
                              c, Result(FALSE, "Panic", 0, "", FALSE)))
                 /\ UNCHANGED seen
            ELSE \E r \in rows :
                   LET seen_item == update_seen(r, Unwrap(c.input.progress),
                                                c.utc_now)
                   IN /\ seen' = (seen \ {r}) \cup {seen_item}
                      /\ Ends(k, Goto([c EXCEPT
                                         !.seen_item = Some(seen_item),
                                         !.pc = "generic_metadata"]))
         /\ UNCHANGED <<seen_id_seq, after_media_seen, metadata,
                        progress_frame>>

\* Drop branch: the query for the latest record not dropped; Utc::now() is
\* read for the row built from the record found
ProgressUpdateFindsLastSeen ==
    \E k \in DOMAIN calls :
      LET c == calls[k]
          found == order_by_desc_first(
                     drop_candidates(seen, c.user_id, c.input.metadata_id))
      IN /\ c.pc = "last_seen"
         /\ IF found = {}
            THEN Ends(k, progress_update_returns(
                           c, Result(FALSE, "Err", 0, ErrNoSeenUnderway,
                                     FALSE)))
            ELSE \E ls \in found :
                   Ends(k, Goto([c EXCEPT !.last_seen = Some(ls),
                                          !.utc_now = now,
                                          !.pc = "drop"]))
         /\ UNCHANGED <<seen, seen_id_seq, after_media_seen, metadata,
                        progress_frame>>

\* Drop branch: the UPDATE of the record found
ProgressUpdateDrops ==
    \E k \in DOMAIN calls :
      LET c == calls[k]
          rows == {r \in seen : r.id = Unwrap(c.last_seen).id}
      IN /\ c.pc = "drop"
         /\ IF rows = {}
            THEN /\ Ends(k, progress_update_returns(
                              c, Result(FALSE, "Panic", 0, "", FALSE)))
                 /\ UNCHANGED seen
            ELSE \E r \in rows :
                   LET seen_item == drop_seen(r, c.utc_now)
                   IN /\ seen' = (seen \ {r}) \cup {seen_item}
                      /\ Ends(k, Goto([c EXCEPT
                                         !.seen_item = Some(seen_item),
                                         !.pc = "generic_metadata"]))
         /\ UNCHANGED <<seen_id_seq, after_media_seen, metadata,
                        progress_frame>>

\* create branch: Metadata::find_by_id(), whose unwrap() panics on no row;
\* then the row to insert is built, with Utc::now() and the unwrap() of the
\* locator fields of the lot
ProgressUpdateFindsMetadata ==
    \E k \in DOMAIN calls :
      LET c == calls[k]
      IN /\ c.pc = "find_metadata"
         /\ IF \/ c.input.metadata_id \notin DOMAIN metadata
               \/ locator_unwrap_panics(metadata[c.input.metadata_id].lot,
                                        c.input)
            THEN Ends(k, progress_update_returns(
                           c, Result(FALSE, "Panic", 0, "", FALSE)))
            ELSE Ends(k, Goto([c EXCEPT
                                 !.lot = metadata[c.input.metadata_id].lot,
                                 !.utc_now = now,
                                 !.pc = "seen_insert"]))
         /\ UNCHANGED <<seen, seen_id_seq, after_media_seen, metadata,
                        progress_frame>>

\* create branch: the INSERT; the foreign key of seen.metadata_id refuses a
\* row whose metadata is gone, and unwrap() panics
ProgressUpdateInserts ==
    \E k \in DOMAIN calls :
      LET c == calls[k]
          seen_item == seen_insert(seen_id_seq + 1, c.action, c.input,
                                   c.user_id, c.lot, c.utc_now)
      IN /\ c.pc = "seen_insert"
         /\ IF c.input.metadata_id \notin DOMAIN metadata
            THEN /\ Ends(k, progress_update_returns(
                              c, Result(FALSE, "Panic", 0, "", FALSE)))
                 /\ UNCHANGED <<seen, seen_id_seq>>
            ELSE /\ seen' = seen \cup {seen_item}
                 /\ seen_id_seq' = seen_id_seq + 1
                 /\ Ends(k, Goto([c EXCEPT !.seen_item = Some(seen_item),
                                           !.pc = "generic_metadata"]))
         /\ UNCHANGED <<after_media_seen, metadata, progress_frame>>

\* generic_metadata(): its first query decides the result; the genres and
\* the images it reads next are not part of the model
ProgressUpdateReadsMetadata ==
    \E k \in DOMAIN calls :
      LET c == calls[k]
      IN /\ c.pc = "generic_metadata"
         /\ IF c.input.metadata_id \in DOMAIN metadata
            THEN Ends(k, Goto([c EXCEPT
                                 !.lot = metadata[c.input.metadata_id].lot,
                                 !.pc = "after_media_seen_push"]))
            ELSE Ends(k, progress_update_returns(
                           c, Result(FALSE, "Err", 0, ErrNoRecord, FALSE)))
         /\ UNCHANGED <<seen, seen_id_seq, after_media_seen, metadata,
                        progress_frame>>

\* variant: the failure of the push is returned to the caller
push_result_kind_err(pushed) ==
    IF pushed THEN "Ok" ELSE "Err"

\* the result of the handler after the push: .ok() discards a failure
push_result_kind(pushed) ==
    "Ok"

\* the push of the AfterMediaSeenJob and the id returned
ProgressUpdatePushesJob ==
    \E k \in DOMAIN calls :
      LET c == calls[k]
          seen_item == Unwrap(c.seen_item)
      IN /\ c.pc = "after_media_seen_push"
         /\ after_media_seen' =
               IF job_storage_up
               THEN Append(after_media_seen,
                           AfterMediaSeenJob(seen_item, c.lot))
               ELSE after_media_seen
         /\ Ends(k, progress_update_returns(
                      c, Result(FALSE, push_result_kind(job_storage_up),
                                seen_item.id, "", job_storage_up)))
         /\ UNCHANGED <<seen, seen_id_seq, metadata, progress_frame>>

\* a request arrives
ProgressUpdate ==
    /\ CallsMade < MaxCalls
    /\ \E user_id \in UserIds, metadata_id \in MetadataIds,
          progress \in ProgressChoices, identifier \in IdentifierChoices :
         \E offset \in DayOffsetsOf[progress],
            loc \in LocatorFieldsOf[progress][InitMetadata[metadata_id].lot] :
           progress_update(MakeInput(metadata_id, progress,
                                     RequestDate(offset, now), loc,
                                     identifier),
                           user_id)

\* no handler has returned yet
NoCall ==
    [op |-> "none", user_id |-> 0, input |-> NoInput,
     action |-> "none", replayed |-> FALSE,
     kind |-> "none", id |-> 0, error |-> "", pushed |-> FALSE,
     alone |-> FALSE, before |-> << >>]

Init ==
    /\ seen = {}
    /\ seen_id_seq = 0
    /\ metadata = InitMetadata
    /\ after_media_seen = << >>
    /\ now = FirstNow
    /\ last = NoCall
    /\ job_storage_up = TRUE
    /\ summary = {}
    /\ summary_id_seq = 0
    /\ recalculate_user_summary = << >>
    /\ review = {}
    /\ review_id_seq = 0
    /\ collection = {}
    /\ metadata_to_collection = {}
    /\ collection_id_seq = 0
    /\ user_created = << >>
    /\ RegisteredAndIdle
    /\ user_to_metadata = {}

Next ==
    \/ ProgressUpdate
    \/ ProgressUpdateFindsIdentifier
    \/ ProgressUpdateUpdates
    \/ ProgressUpdateFindsLastSeen
    \/ ProgressUpdateDrops
    \/ ProgressUpdateFindsMetadata
    \/ ProgressUpdateInserts
    \/ ProgressUpdateReadsMetadata
    \/ ProgressUpdatePushesJob

Spec == Init /\ [][Next]_vars


----------------------------------------------------------------------------
(* The summary: the metadata specifics that calculate_user_summary reads *)

ShowEpisode(episode_number, runtime) ==
    [episode_number |-> episode_number, runtime |-> runtime]

ShowSeason(id, season_number, episodes) ==
    [id |-> id, season_number |-> season_number, episodes |-> episodes]

PodcastEpisode(id, number, runtime) ==
    [id |-> id, number |-> number, runtime |-> runtime]

\* metadata.specifics of the rows of the metadata table, by metadata id
MediaSpecifics ==
       (1 :> [tag |-> "Show",
              seasons |-> <<ShowSeason(101, 1, <<ShowEpisode(1, Some(3)),
                                                 ShowEpisode(2, None)>>),
                            ShowSeason(102, 2, <<ShowEpisode(1, Some(5))>>)>>])
    @@ (2 :> [tag |-> "Podcast",
              episodes |-> <<PodcastEpisode("e1", 1, Some(7)),
                             PodcastEpisode("e2", 2, None)>>])
    @@ (3 :> [tag |-> "Book", pages |-> Some(4)])
    @@ (4 :> [tag |-> "Show",
              seasons |-> <<ShowSeason(201, 1, <<ShowEpisode(1, Some(2))>>)>>])
    @@ (5 :> [tag |-> "Podcast",
              episodes |-> <<PodcastEpisode("f1", 1, Some(1))>>])
    @@ (6 :> [tag |-> "Book", pages |-> None])
    @@ (7 :> [tag |-> "Movie", runtime |-> Some(9)])
    @@ (8 :> [tag |-> "AudioBook", runtime |-> Some(6)])
    @@ (9 :> [tag |-> "Anime", episodes |-> Some(12)])
    @@ (10 :> [tag |-> "Manga", chapters |-> Some(8)])
    @@ (11 :> [tag |-> "VideoGame"])
    @@ (12 :> [tag |-> "Show",
               seasons |-> <<ShowSeason(301, 1, <<ShowEpisode(1, Some(4)),
                                                  ShowEpisode(1, Some(4)),
                                                  ShowEpisode(2, Some(1))>>)>>])

\* the metadata table holding all of these rows: id -> lot
SummaryMetadata ==
    [id \in DOMAIN MediaSpecifics |-> MediaSpecifics[id].tag]

\* summary::Model::default().data
SummaryDefault ==
    [audio_books |-> [played |-> 0, runtime |-> 0],
     anime |-> [watched |-> 0, episodes |-> 0],
     manga |-> [read |-> 0, chapters |-> 0],
     books |-> [read |-> 0, pages |-> 0],
     podcasts |-> [played |-> 0, played_episodes |-> 0, runtime |-> 0],
     movies |-> [watched |-> 0, runtime |-> 0],
     shows |-> [watched |-> 0, watched_episodes |-> 0,
                watched_seasons |-> 0, runtime |-> 0],
     video_games |-> [played |-> 0]]

\* the locals of calculate_user_summary before the stream is read
SummaryLocals ==
    [data |-> SummaryDefault,
     unique_shows |-> {},
     unique_show_seasons |-> {},
     unique_podcasts |-> {},
     unique_podcast_episodes |-> {},
     panicked |-> FALSE]

\* `if let Some(r) = o { x += r }`
AddIfSome(x, o) == IF o = None THEN x ELSE x + Unwrap(o)

----------------------------------------------------------------------------
(* calculate_user_summary: one arm of the match per lot *)

\* variant: a lot's count stops at one
plus_one_saturating(n) == IF n = 0 THEN 1 ELSE n

\* `+= 1` of the arms that count the seen records
plus_one(n) == n + 1

audio_book_arm(ls, item) ==
    [ls EXCEPT !.data.audio_books.played = plus_one(@),
               !.data.audio_books.runtime = AddIfSome(@, item.runtime)]

anime_arm(ls, item) ==
    [ls EXCEPT !.data.anime.watched = plus_one(@),
               !.data.anime.episodes = AddIfSome(@, item.episodes)]

manga_arm(ls, item) ==
    [ls EXCEPT !.data.manga.read = plus_one(@),
               !.data.manga.chapters = AddIfSome(@, item.chapters)]

book_arm(ls, item) ==
    [ls EXCEPT !.data.books.read = plus_one(@),
               !.data.books.pages = AddIfSome(@, item.pages)]

movie_arm(ls, item) ==
    [ls EXCEPT !.data.movies.watched = plus_one(@),
               !.data.movies.runtime = AddIfSome(@, item.runtime)]

video_game_arm(ls, item) ==
    [ls EXCEPT !.data.video_games.played = plus_one(@)]

\* variant: the runtime of an episode is added once per distinct episode
podcast_episode_matched_runtime_once(ls, s, episode) ==
    [ls EXCEPT
       !.data.podcasts.runtime =
           IF <<s.episode, episode.id>> \in ls.unique_podcast_episodes
           THEN @ ELSE AddIfSome(@, episode.runtime),
       !.unique_podcast_episodes = @ \cup {<<s.episode, episode.id>>}]

\* Podcast arm, body of `if s.episode == episode.number`
podcast_episode_matched(ls, s, episode) ==
    [ls EXCEPT
       !.data.podcasts.runtime = AddIfSome(@, episode.runtime),
       !.unique_podcast_episodes = @ \cup {<<s.episode, episode.id>>}]

\* Podcast arm, `for episode in item.episodes`, from the k-th episode on
RECURSIVE podcast_episodes_loop(_, _, _, _)
podcast_episodes_loop(ls, seen_row, episodes, k) ==
    IF ls.panicked \/ k > Len(episodes)
    THEN ls
    ELSE LET episode == episodes[k]
             sei == seen_row.extra_information
         IN IF sei = None
            THEN podcast_episodes_loop(ls, seen_row, episodes, k + 1)
            ELSE IF Unwrap(sei).tag = "Show"
                 THEN [ls EXCEPT !.panicked = TRUE]
                 ELSE podcast_episodes_loop(
                        IF Unwrap(sei).episode = episode.number
                        THEN podcast_episode_matched(ls, Unwrap(sei), episode)
                        ELSE ls,
                        seen_row, episodes, k + 1)

podcast_arm(ls, seen_row, item) ==
    podcast_episodes_loop(
        [ls EXCEPT !.unique_podcasts = @ \cup {seen_row.metadata_id}],
        seen_row, item.episodes, 1)

\* variant: watched_episodes moves only when the season is met first
show_episode_matched_once(ls, s, season, episode) ==
    [ls EXCEPT
       !.data.shows.runtime = AddIfSome(@, episode.runtime),
       !.data.shows.watched_episodes =
           IF <<s.season, season.id>> \in ls.unique_show_seasons
           THEN @ ELSE @ + 1,
       !.unique_show_seasons = @ \cup {<<s.season, season.id>>}]

\* variant: the set holds the (season, episode) pairs
show_episode_matched_pairs(ls, s, season, episode) ==
    [ls EXCEPT
       !.data.shows.runtime = AddIfSome(@, episode.runtime),
       !.data.shows.watched_episodes = @ + 1,
       !.unique_show_seasons = @ \cup {<<s.season, s.episode>>}]

\* Show arm, body of `if s.season == season.season_number && s.episode ==
\* episode.episode_number`
show_episode_matched(ls, s, season, episode) ==
    [ls EXCEPT
       !.data.shows.runtime = AddIfSome(@, episode.runtime),
       !.data.shows.watched_episodes = @ + 1,
       !.unique_show_seasons = @ \cup {<<s.season, season.id>>}]

\* Show arm, `for episode in season.episodes`, from the k-th episode on;
\* extra_information is unwrapped once per episode
RECURSIVE show_episodes_loop(_, _, _, _)
show_episodes_loop(ls, seen_row, season, k) ==
    IF ls.panicked \/ k > Len(season.episodes)
    THEN ls
    ELSE LET episode == season.episodes[k]
             sei == seen_row.extra_information
         IN IF sei = None \/ Unwrap(sei).tag = "Podcast"
            THEN [ls EXCEPT !.panicked = TRUE]
            ELSE show_episodes_loop(
                   IF /\ Unwrap(sei).season = season.season_number
                      /\ Unwrap(sei).episode = episode.episode_number
                   THEN show_episode_matched(ls, Unwrap(sei), season, episode)
                   ELSE ls,
                   seen_row, season, k + 1)

\* Show arm, `for season in item.seasons`, from the k-th season on
RECURSIVE show_seasons_loop(_, _, _, _)
show_seasons_loop(ls, seen_row, seasons, k) ==
    IF ls.panicked \/ k > Len(seasons)
    THEN ls
    ELSE show_seasons_loop(show_episodes_loop(ls, seen_row, seasons[k], 1),
                           seen_row, seasons, k + 1)

show_arm(ls, seen_row, item) ==
    show_seasons_loop(
        [ls EXCEPT !.unique_shows = @ \cup {seen_row.metadata_id}],
        seen_row, item.seasons, 1)

\* `match meta.specifics`
summary_match(ls, seen_row, item) ==
    CASE item.tag = "AudioBook" -> audio_book_arm(ls, item)
      [] item.tag = "Anime" -> anime_arm(ls, item)
      [] item.tag = "Manga" -> manga_arm(ls, item)
      [] item.tag = "Book" -> book_arm(ls, item)
      [] item.tag = "Podcast" -> podcast_arm(ls, seen_row, item)
      [] item.tag = "Movie" -> movie_arm(ls, item)
      [] item.tag = "Show" -> show_arm(ls, seen_row, item)
      [] item.tag = "VideoGame" -> video_game_arm(ls, item)
      [] OTHER -> ls

----------------------------------------------------------------------------
(* calculate_user_summary: the stream, the totals and the inserted row *)

\* variant: the rows of the user whatever their progress
summary_seen_items_any_progress(S, user_id) ==
    {r \in S : r.user_id = user_id}

\* Seen::find() filtered on the user and on progress = 100
summary_seen_items(S, user_id) ==
    {r \in S : r.user_id = user_id /\ r.progress = 100}

\* `while let Some((seen, metadata)) = seen_items.try_next()`, on the rows
\* still to come; metadata.unwrap() panics on a row without metadata
RECURSIVE summary_stream_loop(_, _)
summary_stream_loop(ls, rows) ==
    IF ls.panicked \/ rows = {}
    THEN ls
    ELSE LET seen_row == CHOOSE r \in rows : TRUE
         IN IF seen_row.metadata_id \notin DOMAIN metadata
            THEN [ls EXCEPT !.panicked = TRUE]
            ELSE summary_stream_loop(
                   summary_match(ls, seen_row,
                                 MediaSpecifics[seen_row.metadata_id]),
                   rows \ {seen_row})

\* the locals when the row is about to be inserted: the sizes of the four
\* sets are written into the data
calculate_user_summary(S, user_id) ==
    LET ls == summary_stream_loop(SummaryLocals,
                                  summary_seen_items(S, user_id))
    IN [ls EXCEPT
          !.data.podcasts.played = @ + Cardinality(ls.unique_podcasts),
          !.data.podcasts.played_episodes =
              @ + Cardinality(ls.unique_podcast_episodes),
          !.data.shows.watched = Cardinality(ls.unique_shows),
          !.data.shows.watched_seasons =
              @ + Cardinality(ls.unique_show_seasons)]

\* the row written by summary_obj.insert(): id and created_on are NotSet
summary_insert(id, user_id, data, t) ==
    [id |-> id, created_on |-> t, user_id |-> user_id, data |-> data]

\* variant: nothing is deleted
cleanup_summaries_for_user_keeps(rows, user_id) == rows

\* Summary::delete_many() filtered on the user
cleanup_summaries_for_user(rows, user_id) ==
    {s \in rows : s.user_id # user_id}

----------------------------------------------------------------------------
(* The handlers that recompute the summary, one step for each awaited       *)
(* statement.  The worker of the RecalculateUserSummaryJob storage is       *)
(* declared outside this file: an execution takes the oldest job and calls  *)
(* calculate_user_summary for its user.                                     *)

MaxSummaryCalls == 2   \* requests and job executions begun before the last request

RecalculateUserSummaryJob(user_id) == [user_id |-> user_id]

\* the tables and storages the summary handlers leave alone
summary_frame == <<seen, seen_id_seq, metadata, after_media_seen,
                   job_storage_up, coordinator_tables>>

\* what a caller could have read of the summaries when its call arrived
SummaryBefore ==
    [summary |-> summary, summary_id_seq |-> summary_id_seq,
     recalculate_user_summary |-> recalculate_user_summary]

\* a call of one of the handlers of the summary; users are the rows
\* regenerate_user_summaries has still to go through, ls the locals of
\* calculate_user_summary
SummaryCall(op, user_id, pc) ==
    [op |-> op, user_id |-> user_id, pc |-> pc, users |-> << >>,
     ls |-> SummaryLocals, alone |-> Idle, before |-> SummaryBefore]

SummaryOutcome(c, kind, id) ==
    [op |-> c.op, user_id |-> c.user_id, input |-> NoInput,
     action |-> "none", replayed |-> FALSE, kind |-> kind, id |-> id,
     error |-> "", alone |-> c.alone, before |-> c.before]

\* deploy_recalculate_summary_job: the push, whose error is returned
deploy_recalculate_summary_job(c) ==
    IF job_storage_up
    THEN /\ recalculate_user_summary' =
                Append(recalculate_user_summary,
                       RecalculateUserSummaryJob(c.user_id))
         /\ UNCHANGED <<summary, summary_id_seq, summary_frame>>
    ELSE UNCHANGED <<recalculate_user_summary, summary, summary_id_seq,
                     summary_frame>>

\* regenerate_user_summary arrives: cleanup_summaries_for_user deletes the
\* rows of the user
regenerate_user_summary(user_id) ==
    /\ summary' = cleanup_summaries_for_user(summary, user_id)
    /\ Arrives(Goto(SummaryCall("regenerate_user_summary", user_id,
                                "recalculate_user_summary_push")))
    /\ UNCHANGED <<summary_id_seq, recalculate_user_summary, summary_frame>>

RegenerateUserSummary ==
    /\ CallsMade < MaxSummaryCalls
    /\ \E u \in user : regenerate_user_summary(u.id)

\* regenerate_user_summary: the push of the job
RegenerateUserSummaryPushes ==
    \E k \in DOMAIN calls :
      LET c == calls[k]
      IN /\ c.pc = "recalculate_user_summary_push"
         /\ deploy_recalculate_summary_job(c)
         /\ Ends(k, Return(SummaryOutcome(
                             c, IF job_storage_up THEN "Ok" ELSE "Err", 0)))

\* deploy_recalculate_summary_job called on its own
DeployRecalculateSummaryJob ==
    /\ CallsMade < MaxSummaryCalls
    /\ \E u \in user :
         LET c == SummaryCall("deploy_recalculate_summary_job", u.id,
                              "recalculate_user_summary_push")
         IN /\ deploy_recalculate_summary_job(c)
            /\ Arrives(Return(SummaryOutcome(
                                c, IF job_storage_up THEN "Ok" ELSE "Err",
                                0)))

\* calculate_user_summary: the stream of the completed rows of the user, read
\* to its end; metadata.unwrap() panics on a row without metadata
calculate_user_summary_streams(c, user_id) ==
    LET ls == calculate_user_summary(seen, user_id)
    IN IF ls.panicked
       THEN Return(SummaryOutcome(c, "Panic", 0))
       ELSE Goto([c EXCEPT !.ls = ls, !.pc = "summary_insert"])

\* the worker takes the oldest RecalculateUserSummaryJob and the stream of
\* calculate_user_summary is read; a job that panics is not retried
recalculate_user_summary_job ==
    /\ recalculate_user_summary # << >>
    /\ recalculate_user_summary' = Tail(recalculate_user_summary)
    /\ LET user_id == Head(recalculate_user_summary).user_id
       IN Arrives(calculate_user_summary_streams(
                    SummaryCall("recalculate_user_summary_job", user_id,
                                "summary_stream"),
                    user_id))
    /\ UNCHANGED <<summary, summary_id_seq, summary_frame>>

RecalculateUserSummaryJobRuns == recalculate_user_summary_job

\* the orders in which a query may return the elements of S
Orders(S) ==
    {o \in [1..Cardinality(S) -> S] :
       \A i, j \in DOMAIN o : o[i] = o[j] => i = j}

\* regenerate_user_summaries arrives: User::find().all() returns the rows
\* of the user table, in the order the database chooses
regenerate_user_summaries ==
    /\ \E users \in Orders({u.id : u \in user}) :
         LET c == [SummaryCall("regenerate_user_summaries", 0,
                               "summary_cleanup") EXCEPT !.users = users]
         IN Arrives(IF users = << >>
                    THEN Return(SummaryOutcome(c, "Ok", 0))
                    ELSE Goto(c))
    /\ UNCHANGED <<summary, summary_id_seq, recalculate_user_summary,
                   summary_frame>>

RegenerateUserSummaries ==
    /\ CallsMade < MaxSummaryCalls
    /\ regenerate_user_summaries

\* regenerate_user_summaries: cleanup_summaries_for_user for the next user
RegenerateUserSummariesCleansUp ==
    \E k \in DOMAIN calls :
      LET c == calls[k]
      IN /\ c.pc = "summary_cleanup"
         /\ summary' = cleanup_summaries_for_user(summary, Head(c.users))
         /\ Ends(k, Goto([c EXCEPT !.pc = "summary_stream"]))
         /\ UNCHANGED <<summary_id_seq, recalculate_user_summary,
                        summary_frame>>

\* regenerate_user_summaries: the stream of calculate_user_summary for that
\* user
RegenerateUserSummariesStreams ==
    \E k \in DOMAIN calls :
      LET c == calls[k]
      IN /\ c.pc = "summary_stream"
         /\ Ends(k, calculate_user_summary_streams(c, Head(c.users)))
         /\ UNCHANGED <<summary, summary_id_seq, recalculate_user_summary,
                        summary_frame>>

\* calculate_user_summary: the INSERT of the row; the job returns, and
\* regenerate_user_summaries goes on with the next user or returns
CalculateUserSummaryInserts ==
    \E k \in DOMAIN calls :
      LET c == calls[k]
          user_id == IF c.op = "regenerate_user_summaries"
                     THEN Head(c.users) ELSE c.user_id
      IN /\ c.pc = "summary_insert"
         /\ summary' = summary \cup
               {summary_insert(summary_id_seq + 1, user_id, c.ls.data, now)}
         /\ summary_id_seq' = summary_id_seq + 1
         /\ Ends(k, IF c.op = "regenerate_user_summaries"
                       /\ Tail(c.users) # << >>
                    THEN Goto([c EXCEPT !.users = Tail(@),
                                        !.ls = SummaryLocals,
                                        !.pc = "summary_cleanup"])
                    ELSE Return(SummaryOutcome(
                                  c, "Ok",
                                  IF c.op = "regenerate_user_summaries"
                                  THEN 0 ELSE summary_id_seq + 1)))
         /\ UNCHANGED <<recalculate_user_summary, summary_frame>>


\* a seen row as progress_update leaves it once complete (or, below 100, as
\* it leaves a started one); c gives the owner, the metadata, the progress
\* and the locator
SummarySeenRow(id, c) ==
    [id |-> id,
     progress |-> c.progress,
     user_id |-> c.user_id,
     metadata_id |-> c.metadata_id,
     started_on |-> IF c.progress = 100 THEN None
                    ELSE Some(DateOf(FirstNow - 1)),
     finished_on |-> IF c.progress = 100 THEN Some(DateOf(FirstNow - 1))
                     ELSE None,
     last_updated_on |-> FirstNow - 1,
     identifier |-> None,
     dropped |-> FALSE,
     extra_information |-> c.extra_information]

SeenContent(user_id, metadata_id, progress, extra_information) ==
    [user_id |-> user_id, metadata_id |-> metadata_id,
     progress |-> progress, extra_information |-> extra_information]

ShowLocator(season, episode) ==
    Some([tag |-> "Show", season |-> season, episode |-> episode])

PodcastLocator(episode) == Some([tag |-> "Podcast", episode |-> episode])

\* the table made of the rows of the given contents, with ids 1, 2, ...
SeenTable(contents) ==
    {SummarySeenRow(k, contents[k]) : k \in DOMAIN contents}

\* the seen tables the summary handlers are run on: one with completed rows
\* of both users, and one holding a Show row that merge_metadata moved from
\* a Book (no locator)
SummarySeenTables ==
    {SeenTable(<<SeenContent(1, 3, 100, None),
                 SeenContent(2, 1, 100, ShowLocator(1, 1))>>),
     SeenTable(<<SeenContent(1, 1, 100, None)>>)}

\* the rows of the user table with the given ids
Users(ids) ==
    {UserModel(u, UserName(u), IF u = 1 THEN "Admin" ELSE "Normal", None) :
       u \in ids}

\* everything but the summary tables, the seen table and the user table
InitSummaryRest ==
    /\ seen_id_seq = Cardinality(seen)
    /\ metadata = SummaryMetadata
    /\ after_media_seen = << >>
    /\ now = FirstNow
    /\ last = NoCall
    /\ job_storage_up = TRUE
    /\ summary_id_seq = Cardinality(UserIds)
    /\ recalculate_user_summary = << >>
    /\ review = {}
    /\ review_id_seq = 0
    /\ collection = {}
    /\ metadata_to_collection = {}
    /\ collection_id_seq = 0
    /\ user_created = << >>
    /\ user_id_seq = Cardinality(UserIds)
    /\ register = << >>
    /\ allow_registration = TRUE
    /\ allow_changing_username = TRUE
    /\ user_to_metadata = {}
    /\ genre = {}
    /\ genre_id_seq = 0
    /\ metadata_to_genre = {}
    /\ exercise = {}
    /\ exercise_id_seq = 0
    /\ file_storage = << >>
    /\ update_exercise = << >>
    /\ calls = << >>

\* the summary rows an earlier recomputation has left, one for each user
StaleSummaries(ids) ==
    {summary_insert(u, u, SummaryDefault, FirstNow - 1) : u \in ids}

\* the user tables the handlers are run on
SummaryUserSets == {{1, 2}}

InitSummary ==
    /\ \E ids \in SummaryUserSets :
         /\ user = Users(ids)
         /\ seen \in {S \in SummarySeenTables :
                        \A r \in S : r.user_id \in ids}
         /\ summary = StaleSummaries(ids)
    /\ InitSummaryRest

NextSummary ==
    \/ RegenerateUserSummary
    \/ RegenerateUserSummaryPushes
    \/ DeployRecalculateSummaryJob
    \/ RecalculateUserSummaryJobRuns
    \/ RegenerateUserSummaries
    \/ RegenerateUserSummariesCleansUp
    \/ RegenerateUserSummariesStreams
    \/ CalculateUserSummaryInserts

SpecSummary == InitSummary /\ [][NextSummary]_vars

----------------------------------------------------------------------------
(* calculate_user_summary run once on seen tables of every composition *)

MaxSeen == 2            \* rows of the seen table

\* what a row of the table may be: for user 1, a completed row of every
\* metadata, with every locator for the episodic ones (each declared
\* episode, an undeclared one, none at all: merge_metadata moves rows of
\* another lot, which have no locator); a row that is not complete; rows
\* of user 2
AggregateContents ==
       {SeenContent(1, 1, 100, l) :
          l \in {ShowLocator(1, 1), ShowLocator(1, 2), ShowLocator(2, 1),
                 ShowLocator(9, 9), None}}
  \cup {SeenContent(1, 4, 100, ShowLocator(1, 1))}
  \cup {SeenContent(1, 2, 100, l) :
          l \in {PodcastLocator(1), PodcastLocator(2), PodcastLocator(9),
                 None}}
  \cup {SeenContent(1, 5, 100, PodcastLocator(1))}
  \cup {SeenContent(1, m, 100, None) : m \in {3, 6, 7, 8, 9, 10, 11}}
  \cup {SeenContent(1, 3, 60, None),
        SeenContent(2, 3, 100, None),
        SeenContent(2, 1, 100, ShowLocator(1, 1))}

\* the user tables the recomputation is run on
AggregateUserSets == {{}, {1}, {1, 2}, {1, 2, 3}}

\* every seen table for the two users, and every user table for an empty
\* seen table
InitAggregate ==
    /\ \/ /\ user = Users(UserIds)
          /\ \E n \in 0..MaxSeen :
               \E contents \in [1..n -> AggregateContents] :
                 seen = SeenTable(contents)
       \/ /\ user \in {Users(ids) : ids \in AggregateUserSets}
          /\ seen = {}
    /\ summary = {}
    /\ InitSummaryRest

\* the one request of the behaviour
RegenerateUserSummariesOnce ==
    /\ CallsMade = 0
    /\ regenerate_user_summaries

NextAggregate ==
    \/ RegenerateUserSummariesOnce
    \/ RegenerateUserSummariesCleansUp
    \/ RegenerateUserSummariesStreams
    \/ CalculateUserSummaryInserts

SpecAggregate == InitAggregate /\ [][NextAggregate]_vars

----------------------------------------------------------------------------
(* delete_seen_item and the collection membership it removes *)

\* DefaultCollection::InProgress.to_string()
InProgress == "In Progress"

\* a row of the collection table
CollectionRow(id, user_id, name) ==
    [id |-> id, user_id |-> user_id, name |-> name]

\* a row of the metadata_to_collection table
MetadataToCollection(metadata_id, collection_id) ==
    [metadata_id |-> metadata_id, collection_id |-> collection_id]

ErrSeenNotOwned == "This seen item does not belong to this user"
ErrSeenMissing == "This seen item does not exist"

\* Collection::find() filtered on the name and the user
collection_lookup(C, user_id, collection_name) ==
    {c \in C : c.name = collection_name /\ c.user_id = user_id}

\* the DELETE of the membership row; a failing delete is discarded by .ok()
metadata_to_collection_delete(rows, metadata_id, collect) ==
    rows \ {MetadataToCollection(metadata_id, collect.id)}

MaxDeleteCalls == 2   \* requests in one behaviour

\* what a caller could have read when its call arrived
DeleteBefore ==
    [seen |-> seen, collection |-> collection,
     metadata_to_collection |-> metadata_to_collection]

\* a call of delete_seen_item, of remove_media_item_from_collection or of
\* add_media_to_collection with its locals: the seen row and the
\* collection found; for create_custom_media the genres still to associate
\* and the genre found
DeleteCall(op, user_id, input, pc, si, collect) ==
    [op |-> op, user_id |-> user_id, input |-> input, pc |-> pc,
     si |-> si, collect |-> collect, genres |-> << >>, db_genre |-> None,
     alone |-> Idle, before |-> DeleteBefore]

DeleteOutcome(c, kind, id, error) ==
    [op |-> c.op, user_id |-> c.user_id, input |-> c.input,
     action |-> "none", replayed |-> FALSE, kind |-> kind, id |-> id,
     resp |-> FALSE, error |-> error, alone |-> c.alone,
     before |-> c.before]

\* the tables and storages these handlers leave alone
delete_frame == <<seen_id_seq, metadata, after_media_seen, job_storage_up,
                  summary_tables, review, review_id_seq, collection,
                  collection_id_seq, user_created, account_tables,
                  fitness_tables, user_to_metadata, genre_tables>>

\* a variant that takes every caller for the owner
not_owned_by_never(si, user_id) == FALSE

\* the ownership test made on the row found
not_owned_by(si, user_id) == si.user_id # user_id

\* delete_seen_item arrives: Seen::find_by_id() and the two refusals
delete_seen_item(user_id, seen_id) ==
    LET seen_item == {r \in seen : r.id = seen_id}
        c == DeleteCall("delete_seen_item", user_id, [seen_id |-> seen_id],
                        "seen_delete", None, None)
    IN /\ IF seen_item = {}
          THEN Arrives(Return(DeleteOutcome(c, "Err", 0, ErrSeenMissing)))
          ELSE \E si \in seen_item :
                 IF not_owned_by(si, user_id)
                 THEN Arrives(Return(DeleteOutcome(c, "Err", 0,
                                                   ErrSeenNotOwned)))
                 ELSE Arrives(Goto([c EXCEPT !.si = Some(si)]))
       /\ UNCHANGED <<seen, metadata_to_collection, delete_frame>>

DeleteSeenItem ==
    /\ CallsMade < MaxDeleteCalls
    /\ \E user_id \in UserIds, seen_id \in 1..(seen_id_seq + 1) :
         delete_seen_item(user_id, seen_id)

\* delete_seen_item: the DELETE of the row found, whose result .ok()
\* discards; a row that was complete ends the call
DeleteSeenItemDeletes ==
    \E k \in DOMAIN calls :
      LET c == calls[k]
          si == Unwrap(c.si)
      IN /\ c.pc = "seen_delete"
         /\ seen' = {r \in seen : r.id # si.id}
         /\ Ends(k, IF si.progress < 100
                    THEN Goto([c EXCEPT !.pc = "collection_find"])
                    ELSE Return(DeleteOutcome(c, "Ok", si.id, "")))
         /\ UNCHANGED <<metadata_to_collection, delete_frame>>

\* remove_media_item_from_collection called by delete_seen_item for the
\* "In Progress" collection: the lookup of the collection, whose unwrap()
\* panics when the user has none
DeleteSeenItemFindsCollection ==
    \E k \in DOMAIN calls :
      LET c == calls[k]
          found == collection_lookup(collection, c.user_id, InProgress)
      IN /\ c.pc = "collection_find"
         /\ IF found = {}
            THEN Ends(k, Return(DeleteOutcome(c, "Panic", 0, "")))
            ELSE \E collect \in found :
                   Ends(k, Goto([c EXCEPT !.collect = Some(collect),
                                          !.pc = "membership_delete"]))
         /\ UNCHANGED <<seen, metadata_to_collection, delete_frame>>

\* remove_media_item_from_collection called on its own: the same lookup
remove_media_item_from_collection(user_id, metadata_id, collection_name) ==
    LET found == collection_lookup(collection, user_id, collection_name)
        c == DeleteCall("remove_media_item_from_collection", user_id,
                        [metadata_id |-> metadata_id,
                         collection_name |-> collection_name],
                        "membership_delete", None, None)
    IN /\ IF found = {}
          THEN Arrives(Return(DeleteOutcome(c, "Panic", 0, "")))
          ELSE \E collect \in found :
                 Arrives(Goto([c EXCEPT !.collect = Some(collect)]))
       /\ UNCHANGED <<seen, metadata_to_collection, delete_frame>>

\* the collection names and the metadata a request on memberships names
MembershipNames == {InProgress}
MembershipMetadataIds == {3}

RemoveMediaItemFromCollection ==
    /\ CallsMade < MaxDeleteCalls
    /\ \E user_id \in UserIds, metadata_id \in MembershipMetadataIds,
          collection_name \in MembershipNames :
         remove_media_item_from_collection(user_id, metadata_id,
                                           collection_name)

\* remove_media_item_from_collection: the DELETE of the membership; the id
\* returned is the collection's, and delete_seen_item returns the seen id
RemoveMediaItemDeletes ==
    \E k \in DOMAIN calls :
      LET c == calls[k]
          collect == Unwrap(c.collect)
          metadata_id == IF c.op = "delete_seen_item"
                         THEN Unwrap(c.si).metadata_id
                         ELSE c.input.metadata_id
      IN /\ c.pc = "membership_delete"
         /\ metadata_to_collection' =
               metadata_to_collection_delete(metadata_to_collection,
                                             metadata_id, collect)
         /\ Ends(k, Return(DeleteOutcome(
                             c, "Ok",
                             IF c.op = "delete_seen_item"
                             THEN Unwrap(c.si).id ELSE collect.id, "")))
         /\ UNCHANGED <<seen, delete_frame>>

\* add_media_to_collection arrives: the lookup of the collection, whose
\* unwrap() panics when the user has none of that name
add_media_to_collection(user_id, media_id, collection_name) ==
    LET found == collection_lookup(collection, user_id, collection_name)
        c == DeleteCall("add_media_to_collection", user_id,
                        [media_id |-> media_id,
                         collection_name |-> collection_name],
                        "membership_insert", None, None)
    IN /\ IF found = {}
          THEN Arrives(Return(DeleteOutcome(c, "Panic", 0, "")))
          ELSE \E collect \in found :
                 Arrives(Goto([c EXCEPT !.collect = Some(collect)]))
       /\ UNCHANGED <<seen, metadata_to_collection, delete_frame>>

AddMediaToCollection ==
    /\ CallsMade < MaxDeleteCalls
    /\ \E user_id \in UserIds, media_id \in MembershipMetadataIds,
          collection_name \in MembershipNames :
         add_media_to_collection(user_id, media_id, collection_name)

\* add_media_to_collection: the INSERT, refused for a membership that is
\* stored already and for a metadata or a collection that is gone; the
\* call returns whether it succeeded, and create_custom_media, which
\* called it, returns the media
AddMediaInserts ==
    \E k \in DOMAIN calls :
      LET c == calls[k]
          col == MetadataToCollection(c.input.media_id,
                                      Unwrap(c.collect).id)
          is_ok == /\ col \notin metadata_to_collection
                   /\ c.input.media_id \in DOMAIN metadata
                   /\ \E r \in collection : r.id = col.collection_id
      IN /\ c.pc = "membership_insert"
         /\ metadata_to_collection' =
               IF is_ok THEN metadata_to_collection \cup {col}
               ELSE metadata_to_collection
         /\ Ends(k, Return(IF c.op = "create_custom_media"
                           THEN DeleteOutcome(c, "Ok", c.input.media_id, "")
                           ELSE [DeleteOutcome(c, "Ok", 0, "") EXCEPT
                                   !.resp = is_ok]))
         /\ UNCHANGED <<seen, delete_frame>>

\* the seen tables of this scenario: one row of user 1 on the book, started
\* or complete, alone or with a started row of user 2
DeleteSeenTables ==
    {SeenTable(<<SeenContent(1, 3, p, None)>> \o others) :
       p \in {60, 100},
       others \in {<< >>, <<SeenContent(2, 3, 60, None)>>}}

\* the "In Progress" collection of user u, which user_created_job creates
\* with the other default collections; its id is the user's
InProgressCollections ==
    {CollectionRow(u, u, InProgress) : u \in UserIds}

InitDelete ==
    /\ seen \in DeleteSeenTables
    /\ seen_id_seq = Cardinality(seen)
    /\ metadata = InitMetadata
    /\ collection \in {InProgressCollections,
                       {c \in InProgressCollections : c.user_id # 1}}
    /\ collection_id_seq = Cardinality(UserIds)
    /\ user_created = << >>
    /\ RegisteredAndIdle
    /\ user_to_metadata = {}
    /\ metadata_to_collection \in
           SUBSET {MetadataToCollection(3, c.id) : c \in collection}
    /\ after_media_seen = << >>
    /\ now = FirstNow
    /\ last = NoCall
    /\ job_storage_up = TRUE
    /\ summary = {}
    /\ summary_id_seq = 0
    /\ recalculate_user_summary = << >>
    /\ review = {}
    /\ review_id_seq = 0

NextDelete ==
    \/ DeleteSeenItem
    \/ DeleteSeenItemDeletes
    \/ DeleteSeenItemFindsCollection
    \/ RemoveMediaItemFromCollection
    \/ RemoveMediaItemDeletes
    \/ AddMediaToCollection
    \/ AddMediaInserts

SpecDelete == InitDelete /\ [][NextDelete]_vars

----------------------------------------------------------------------------
(* merge_metadata, with the other handlers that write the review table or   *)
(* delete metadata rows: post_review, delete_review and                     *)
(* cleanup_metadata_with_associated_user_activities                         *)

MaxReviews == 2      \* rows of the review table
MaxMergeCalls == 1   \* calls made in one behaviour

\* a row of the review table; the text stands for the columns that no
\* statement reads (rating, spoiler, visibility, posted_on)
ReviewRow(id, user_id, metadata_id, text, identifier) ==
    [id |-> id, user_id |-> user_id, metadata_id |-> metadata_id,
     text |-> text, identifier |-> identifier]

\* a row of the user_to_metadata table.  No statement of these sources
\* inserts one: the handlers count and delete the rows they find.
UserToMetadata(user_id, metadata_id) ==
    [user_id |-> user_id, metadata_id |-> metadata_id]

\* variant: the copy still references merge_from
merge_new_row_same_metadata(old, id, merge_into) ==
    [old EXCEPT !.id = id]

\* the ActiveModel inserted for an old seen or review row: id NotSet,
\* metadata_id Set(merge_into), every other column as in the old row
merge_new_row(old, id, merge_into) ==
    [old EXCEPT !.id = id, !.metadata_id = merge_into]

\* what the schema does with the rows that reference a metadata row that
\* is deleted: the migrations are not part of the sources
OnDeleteActions == {"Cascade", "Restrict"}

\* the tables whose rows reference a metadata row
ReferencingTables ==
    {"seen", "review", "metadata_to_collection", "user_to_metadata",
     "metadata_to_genre"}

\* some row of the table references the metadata row m
is_referenced(table, m) ==
    CASE table = "seen" -> \E r \in seen : r.metadata_id = m
      [] table = "review" -> \E r \in review : r.metadata_id = m
      [] table = "metadata_to_collection" ->
           \E r \in metadata_to_collection : r.metadata_id = m
      [] table = "user_to_metadata" ->
           \E r \in user_to_metadata : r.metadata_id = m
      [] table = "metadata_to_genre" ->
           \E r \in metadata_to_genre : r.metadata_id = m

\* the tables that hold a row referencing the metadata row m
referencing(m) == {table \in ReferencingTables : is_referenced(table, m)}

\* the DELETE of a metadata row is refused: a table that holds a row
\* referencing it has a foreign key that restricts
metadata_delete_refused(on_delete) ==
    \E table \in DOMAIN on_delete : on_delete[table] = "Restrict"

\* the DELETE of the metadata row m, with the rows that go with it
metadata_delete(m) ==
    /\ seen' = {r \in seen : r.metadata_id # m}
    /\ review' = {r \in review : r.metadata_id # m}
    /\ metadata_to_collection' =
          {r \in metadata_to_collection : r.metadata_id # m}
    /\ user_to_metadata' = {r \in user_to_metadata : r.metadata_id # m}
    /\ metadata_to_genre' = {r \in metadata_to_genre : r.metadata_id # m}
    /\ metadata' = [x \in DOMAIN metadata \ {m} |-> metadata[x]]

\* what a caller could have read of the tables when its call arrived
MergeBefore ==
    [seen |-> seen, review |-> review, metadata |-> metadata,
     metadata_to_collection |-> metadata_to_collection,
     user_to_metadata |-> user_to_metadata]

\* a merge_metadata call: its arguments, the statement it runs next, the
\* rows its queries returned that are still to be moved, in the order the
\* database returned them, and whether a statement of this call may fail
MergeCall(merge_from, merge_into, pc, rows, may_fail) ==
    [op |-> "merge_metadata", merge_from |-> merge_from,
     merge_into |-> merge_into, pc |-> pc, rows |-> rows, reviews |-> << >>,
     may_fail |-> may_fail, alone |-> Idle, before |-> MergeBefore]

MergeOutcome(c, kind) ==
    [op |-> c.op, user_id |-> 0,
     input |-> [merge_from |-> c.merge_from, merge_into |-> c.merge_into],
     action |-> "none", replayed |-> FALSE, kind |-> kind, id |-> 0,
     error |-> "", alone |-> c.alone, before |-> c.before]

\* the tables and storages these handlers leave alone, and the tables
\* that only the DELETE of a metadata row writes
merge_frame ==
    <<after_media_seen, job_storage_up, summary_tables, collection,
      collection_id_seq, user_created, account_tables, fitness_tables,
      genre, genre_id_seq>>
merge_references ==
    <<metadata_to_collection, user_to_metadata, metadata_to_genre>>

\* the outcomes of an INSERT or a DELETE of this call
StatementFails(c) == IF c.may_fail THEN BOOLEAN ELSE {FALSE}

\* the call arrives: Seen::find().filter(MetadataId.eq(merge_from)).all()
\* returns the rows the first loop will go through; the query has no
\* order_by, so the order is the database's choice
merge_metadata(merge_from, merge_into, may_fail) ==
    LET found == {r \in seen : r.metadata_id = merge_from}
    IN /\ \E rows \in Orders(found) :
            Arrives(Goto(MergeCall(merge_from, merge_into,
                                   IF rows = << >> THEN "merge_review_find"
                                   ELSE "merge_seen_insert",
                                   rows, may_fail)))
       /\ UNCHANGED <<seen, seen_id_seq, review, review_id_seq, metadata,
                      merge_references, merge_frame>>

\* the first loop: the INSERT of the copy of old_seen, refused when
\* merge_into is no row of the metadata table; the error of a statement is
\* returned by `?`
MergeMetadataInsertsSeen ==
    \E k \in DOMAIN calls :
      LET c == calls[k]
          old == Head(c.rows)
          new == merge_new_row(old, seen_id_seq + 1, c.merge_into)
      IN /\ c.pc = "merge_seen_insert"
         /\ \E fails \in StatementFails(c) :
              IF fails \/ c.merge_into \notin DOMAIN metadata
              THEN /\ Ends(k, Return(MergeOutcome(c, "Err")))
                   /\ UNCHANGED <<seen, seen_id_seq>>
              ELSE /\ seen' = seen \cup {new}
                   /\ seen_id_seq' = seen_id_seq + 1
                   /\ Ends(k, Goto([c EXCEPT !.pc = "merge_seen_delete"]))
         /\ UNCHANGED <<review, review_id_seq, metadata, merge_references,
                        merge_frame>>

\* the first loop: the DELETE of old_seen; after the last row the reviews
\* are queried
MergeMetadataDeletesSeen ==
    \E k \in DOMAIN calls :
      LET c == calls[k]
          old == Head(c.rows)
          rest == Tail(c.rows)
      IN /\ c.pc = "merge_seen_delete"
         /\ \E fails \in StatementFails(c) :
              IF fails
              THEN /\ Ends(k, Return(MergeOutcome(c, "Err")))
                   /\ UNCHANGED seen
              ELSE /\ seen' = {r \in seen : r.id # old.id}
                   /\ Ends(k, Goto([c EXCEPT
                                      !.rows = rest,
                                      !.pc = IF rest = << >>
                                             THEN "merge_review_find"
                                             ELSE "merge_seen_insert"]))
         /\ UNCHANGED <<seen_id_seq, review, review_id_seq, metadata,
                        merge_references, merge_frame>>

\* Review::find().filter(MetadataId.eq(merge_from)).all(), in the order
\* the database returns the rows
MergeMetadataFindsReviews ==
    \E k \in DOMAIN calls :
      LET c == calls[k]
          found == {x \in review : x.metadata_id = c.merge_from}
      IN /\ c.pc = "merge_review_find"
         /\ \E reviews \in Orders(found) :
              Ends(k, Goto([c EXCEPT !.reviews = reviews,
                                     !.pc = IF reviews = << >>
                                            THEN "merge_metadata_delete"
                                            ELSE "merge_review_insert"]))
         /\ UNCHANGED <<seen, seen_id_seq, review, review_id_seq, metadata,
                        merge_references, merge_frame>>

\* the second loop: the INSERT of the copy of old_review
MergeMetadataInsertsReview ==
    \E k \in DOMAIN calls :
      LET c == calls[k]
          old == Head(c.reviews)
          new == merge_new_row(old, review_id_seq + 1, c.merge_into)
      IN /\ c.pc = "merge_review_insert"
         /\ \E fails \in StatementFails(c) :
              IF fails \/ c.merge_into \notin DOMAIN metadata
              THEN /\ Ends(k, Return(MergeOutcome(c, "Err")))
                   /\ UNCHANGED <<review, review_id_seq>>
              ELSE /\ review' = review \cup {new}
                   /\ review_id_seq' = review_id_seq + 1
                   /\ Ends(k, Goto([c EXCEPT !.pc = "merge_review_delete"]))
         /\ UNCHANGED <<seen, seen_id_seq, metadata, merge_references,
                        merge_frame>>

\* the second loop: the DELETE of old_review
MergeMetadataDeletesReview ==
    \E k \in DOMAIN calls :
      LET c == calls[k]
          old == Head(c.reviews)
          rest == Tail(c.reviews)
      IN /\ c.pc = "merge_review_delete"
         /\ \E fails \in StatementFails(c) :
              IF fails
              THEN /\ Ends(k, Return(MergeOutcome(c, "Err")))
                   /\ UNCHANGED review
              ELSE /\ review' = {x \in review : x.id # old.id}
                   /\ Ends(k, Goto([c EXCEPT
                                      !.reviews = rest,
                                      !.pc = IF rest = << >>
                                             THEN "merge_metadata_delete"
                                             ELSE "merge_review_insert"]))
         /\ UNCHANGED <<seen, seen_id_seq, review_id_seq, metadata,
                        merge_references, merge_frame>>

\* Metadata::delete_by_id(merge_from): the rows that still reference the
\* metadata row go with it or make the statement fail
MergeMetadataDeletes ==
    \E k \in DOMAIN calls :
      LET c == calls[k]
      IN /\ c.pc = "merge_metadata_delete"
         /\ \E fails \in StatementFails(c),
               on_delete \in [referencing(c.merge_from) -> OnDeleteActions] :
              IF fails \/ metadata_delete_refused(on_delete)
              THEN /\ Ends(k, Return(MergeOutcome(c, "Err")))
                   /\ UNCHANGED <<seen, review, metadata, merge_references>>
              ELSE /\ metadata_delete(c.merge_from)
                   /\ Ends(k, Return(MergeOutcome(c, "Ok")))
         /\ UNCHANGED <<seen_id_seq, review_id_seq, merge_frame>>

\* the metadata rows that are merged: the show and the book
MergeMetadataIds == {1, 3}

\* a merge of one metadata row into another one, of which a statement may
\* fail
MergeMetadata ==
    /\ CallsMade < MaxMergeCalls
    /\ \E merge_from \in MergeMetadataIds, merge_into \in MergeMetadataIds :
         /\ merge_from # merge_into
         /\ merge_metadata(merge_from, merge_into, TRUE)

----------------------------------------------------------------------------
(* post_review and delete_review *)

ErrReviewNotOwned == "This review does not belong to you"

\* a call of post_review or of delete_review, with the review found
ReviewCall(op, user_id, input, pc) ==
    [op |-> op, user_id |-> user_id, input |-> input, pc |-> pc,
     r |-> None, alone |-> Idle, before |-> MergeBefore]

ReviewOutcome(c, kind, id, resp, error) ==
    [op |-> c.op, user_id |-> c.user_id, input |-> c.input,
     action |-> "none", replayed |-> FALSE, kind |-> kind, id |-> id,
     resp |-> resp, error |-> error, alone |-> c.alone,
     before |-> c.before]

\* the tables the handlers of the reviews leave alone
review_frame ==
    <<seen, seen_id_seq, metadata, merge_references, merge_frame>>

\* Review::find().filter(Identifier.eq(input.identifier)): a comparison
\* with no identifier selects no row
review_by_identifier(R, identifier) ==
    {x \in R : IsSome(identifier) /\ x.identifier = identifier}

\* post_review arrives: a review that carries the identifier ends the call
\* with the id of its metadata
post_review(user_id, input) ==
    LET c == ReviewCall("post_review", user_id, input, "review_save")
    IN /\ \E m \in OneOf(review_by_identifier(review, input.identifier)) :
            Arrives(IF IsSome(m)
                    THEN Return(ReviewOutcome(c, "Ok", Unwrap(m).metadata_id,
                                              FALSE, ""))
                    ELSE Goto(c))
       /\ UNCHANGED <<review, review_id_seq, review_frame>>

\* what a post_review request carries: its author, the metadata reviewed,
\* the id of a review to write over, an identifier
ReviewUserIds == {2}
ReviewMetadataIds == {3}
ReviewIdentifiers == {"r1"}

PostReview ==
    /\ CallsMade < MaxMergeCalls
    /\ \E user_id \in ReviewUserIds, metadata_id \in ReviewMetadataIds,
          review_id \in OptionOf({1}),
          identifier \in OptionOf(ReviewIdentifiers) :
         post_review(user_id,
                     [metadata_id |-> metadata_id, text |-> "posted",
                      review_id |-> review_id, identifier |-> identifier])

\* review_obj.save(): an UPDATE of the row review_id names, which writes
\* every column modelled, or an INSERT; the statement is refused for a
\* review_id no row has and for a metadata that is not stored, and
\* unwrap() panics
PostReviewSaves ==
    \E k \in DOMAIN calls :
      LET c == calls[k]
          id == IF IsSome(c.input.review_id) THEN Unwrap(c.input.review_id)
                ELSE review_id_seq + 1
          saved == ReviewRow(id, c.user_id, c.input.metadata_id,
                             c.input.text, c.input.identifier)
          refused ==
            \/ c.input.metadata_id \notin DOMAIN metadata
            \/ IsSome(c.input.review_id) /\ \A x \in review : x.id # id
      IN /\ c.pc = "review_save"
         /\ IF refused
            THEN /\ Ends(k, Return(ReviewOutcome(c, "Panic", 0, FALSE, "")))
                 /\ UNCHANGED <<review, review_id_seq>>
            ELSE /\ review' = {x \in review : x.id # id} \cup {saved}
                 /\ review_id_seq' = IF IsSome(c.input.review_id)
                                     THEN review_id_seq ELSE id
                 /\ Ends(k, Return(ReviewOutcome(c, "Ok", id, FALSE, "")))
         /\ UNCHANGED review_frame

\* delete_review arrives: the review of that id; without one the call
\* returns false, and a review of another user is refused
delete_review(user_id, review_id) ==
    LET c == ReviewCall("delete_review", user_id, [review_id |-> review_id],
                        "review_delete")
    IN /\ \E r \in OneOf({x \in review : x.id = review_id}) :
            Arrives(IF ~IsSome(r)
                    THEN Return(ReviewOutcome(c, "Ok", 0, FALSE, ""))
                    ELSE IF Unwrap(r).user_id = user_id
                    THEN Goto([c EXCEPT !.r = r])
                    ELSE Return(ReviewOutcome(c, "Err", 0, FALSE,
                                              ErrReviewNotOwned)))
       /\ UNCHANGED <<review, review_id_seq, review_frame>>

DeleteReview ==
    /\ CallsMade < MaxMergeCalls
    /\ \E user_id \in UserIds, review_id \in 1..MaxReviews :
         delete_review(user_id, review_id)

\* r.delete(): the DELETE of the review found
DeleteReviewDeletes ==
    \E k \in DOMAIN calls :
      LET c == calls[k]
      IN /\ c.pc = "review_delete"
         /\ review' = {x \in review : x.id # Unwrap(c.r).id}
         /\ Ends(k, Return(ReviewOutcome(c, "Ok", 0, TRUE, "")))
         /\ UNCHANGED <<review_id_seq, review_frame>>

----------------------------------------------------------------------------
(* cleanup_metadata_with_associated_user_activities *)

\* a call with the metadata rows Metadata::find().all() returned that it
\* has still to visit
CleanupCall(pc, all_metadata) ==
    [op |-> "cleanup_metadata_with_associated_user_activities", pc |-> pc,
     all_metadata |-> all_metadata, alone |-> Idle, before |-> MergeBefore]

CleanupOutcome(c) ==
    [op |-> c.op, user_id |-> 0, input |-> NoInput, action |-> "none",
     replayed |-> FALSE, kind |-> "Ok", id |-> 0, error |-> "",
     alone |-> c.alone, before |-> c.before]

\* the head of the loop: the count for the next metadata row, or Ok(())
cleanup_loop(c) ==
    IF c.all_metadata = << >> THEN Return(CleanupOutcome(c))
    ELSE Goto([c EXCEPT !.pc = "association_count"])

\* the call arrives: the rows of the metadata table, in the order the
\* database returns them
CleanupMetadataWithAssociatedUserActivities ==
    /\ CallsMade < MaxMergeCalls
    /\ \E all_metadata \in Orders(DOMAIN metadata) :
         Arrives(cleanup_loop(CleanupCall("association_count",
                                          all_metadata)))
    /\ UNCHANGED <<review, review_id_seq, review_frame>>

\* UserToMetadata::find().filter(MetadataId.eq(metadata.id)).count(): a
\* metadata row without association is deleted next
CleanupMetadataCounts ==
    \E k \in DOMAIN calls :
      LET c == calls[k]
          num_associations ==
            Cardinality({a \in user_to_metadata :
                           a.metadata_id = Head(c.all_metadata)})
      IN /\ c.pc = "association_count"
         /\ Ends(k, IF num_associations = 0
                    THEN Goto([c EXCEPT !.pc = "metadata_delete"])
                    ELSE cleanup_loop([c EXCEPT !.all_metadata = Tail(@)]))
         /\ UNCHANGED <<review, review_id_seq, review_frame>>

\* metadata.delete(), whose error .ok() discards
CleanupMetadataDeletes ==
    \E k \in DOMAIN calls :
      LET c == calls[k]
          m == Head(c.all_metadata)
      IN /\ c.pc = "metadata_delete"
         /\ \E on_delete \in [referencing(m) -> OnDeleteActions] :
              IF metadata_delete_refused(on_delete)
              THEN UNCHANGED <<seen, review, metadata, merge_references>>
              ELSE metadata_delete(m)
         /\ Ends(k, cleanup_loop([c EXCEPT !.all_metadata = Tail(@)]))
         /\ UNCHANGED <<seen_id_seq, review_id_seq, merge_frame>>

----------------------------------------------------------------------------
(* cleanup_user_and_metadata_association *)

\* a call with the rows UserToMetadata::find().all() returned that it has
\* still to visit, and what its queries have answered for the first of
\* them
AssociationCall(pc, user_to_metadatas) ==
    [op |-> "cleanup_user_and_metadata_association", pc |-> pc,
     user_to_metadatas |-> user_to_metadatas, seen_count |-> 0,
     reviewed_count |-> 0, collection_ids |-> {}, alone |-> Idle,
     before |-> MergeBefore]

\* the head of the loop: the count of the seen rows for the next
\* association, or Ok(())
association_loop(c) ==
    IF c.user_to_metadatas = << >> THEN Return(CleanupOutcome(c))
    ELSE Goto([c EXCEPT !.pc = "association_seen_count"])

\* the tables the call leaves alone while it reads
association_frame ==
    <<seen, seen_id_seq, review, review_id_seq, metadata,
      metadata_to_collection, metadata_to_genre, merge_frame>>

\* the call arrives: the rows of the user_to_metadata table, in the order
\* the database returns them
CleanupUserAndMetadataAssociation ==
    /\ CallsMade < MaxMergeCalls
    /\ \E user_to_metadatas \in Orders(user_to_metadata) :
         Arrives(association_loop(AssociationCall("association_seen_count",
                                                  user_to_metadatas)))
    /\ UNCHANGED <<user_to_metadata, association_frame>>

\* Seen::find() filtered on the user and the metadata, counted
CleanupAssociationCountsSeen ==
    \E k \in DOMAIN calls :
      LET c == calls[k]
          u == Head(c.user_to_metadatas)
          seen_count ==
            Cardinality({r \in seen : /\ r.user_id = u.user_id
                                      /\ r.metadata_id = u.metadata_id})
      IN /\ c.pc = "association_seen_count"
         /\ Ends(k, Goto([c EXCEPT !.seen_count = seen_count,
                                   !.pc = "association_review_count"]))
         /\ UNCHANGED <<user_to_metadata, association_frame>>

\* Review::find() filtered on the user and the metadata, counted
CleanupAssociationCountsReviews ==
    \E k \in DOMAIN calls :
      LET c == calls[k]
          u == Head(c.user_to_metadatas)
          reviewed_count ==
            Cardinality({r \in review : /\ r.user_id = u.user_id
                                        /\ r.metadata_id = u.metadata_id})
      IN /\ c.pc = "association_review_count"
         /\ Ends(k, Goto([c EXCEPT !.reviewed_count = reviewed_count,
                                   !.pc = "association_collection_ids"]))
         /\ UNCHANGED <<user_to_metadata, association_frame>>

\* Collection::find() filtered on the user: the ids of the collections
CleanupAssociationFindsCollections ==
    \E k \in DOMAIN calls :
      LET c == calls[k]
          u == Head(c.user_to_metadatas)
          collection_ids == {r.id : r \in {x \in collection :
                                             x.user_id = u.user_id}}
      IN /\ c.pc = "association_collection_ids"
         /\ Ends(k, Goto([c EXCEPT !.collection_ids = collection_ids,
                                   !.pc = "association_meta_ids"]))
         /\ UNCHANGED <<user_to_metadata, association_frame>>

\* MetadataToCollection::find() filtered on these collections: an
\* association without seen row, without review and whose metadata none of
\* the collections holds is deleted next
CleanupAssociationFindsMemberships ==
    \E k \in DOMAIN calls :
      LET c == calls[k]
          u == Head(c.user_to_metadatas)
          meta_ids == {r.metadata_id :
                         r \in {x \in metadata_to_collection :
                                  x.collection_id \in c.collection_ids}}
          is_in_collection == u.metadata_id \in meta_ids
      IN /\ c.pc = "association_meta_ids"
         /\ Ends(k, IF c.seen_count + c.reviewed_count = 0
                       /\ ~is_in_collection
                    THEN Goto([c EXCEPT !.pc = "association_delete"])
                    ELSE association_loop(
                           [c EXCEPT !.user_to_metadatas = Tail(@)]))
         /\ UNCHANGED <<user_to_metadata, association_frame>>

\* u.delete(), whose result .ok() discards
CleanupAssociationDeletes ==
    \E k \in DOMAIN calls :
      LET c == calls[k]
          u == Head(c.user_to_metadatas)
      IN /\ c.pc = "association_delete"
         /\ user_to_metadata' = user_to_metadata \ {u}
         /\ Ends(k, association_loop(
                      [c EXCEPT !.user_to_metadatas = Tail(@)]))
         /\ UNCHANGED association_frame

----------------------------------------------------------------------------
\* the seen tables a merge is run on: an empty one, one with two rows of
\* the book by the two users, and one with a row of the book, of the
\* podcast and of the show
MergeSeenTables ==
    {SeenTable(<< >>),
     SeenTable(<<SeenContent(1, 3, 100, None),
                 SeenContent(2, 3, 100, None)>>),
     SeenTable(<<SeenContent(1, 3, 60, None),
                 SeenContent(1, 2, 100, PodcastLocator(1)),
                 SeenContent(1, 1, 100, ShowLocator(1, 1))>>)}

\* the rows of the review table, in the order of their ids: the author,
\* the metadata reviewed and the identifier the review was posted with
ReviewContents ==
    <<<<2, 3, None>>, <<1, 3, Some("r1")>>, <<1, 1, None>>>>

\* the memberships, the associations and the genres a merge is run on:
\* none, or the book and the show in a collection, the book associated
\* with both users and with the one genre stored
MergeReferences ==
    {<<{}, {}, {}>>,
     <<{MetadataToCollection(3, 1), MetadataToCollection(1, 2)},
       {UserToMetadata(1, 3), UserToMetadata(2, 3)},
       {MetadataToGenre(3, 1)}>>}

InitMerge ==
    /\ seen \in MergeSeenTables
    /\ seen_id_seq = Cardinality(seen)
    /\ \E n \in 0..MaxReviews :
         review = {ReviewRow(k, ReviewContents[k][1], ReviewContents[k][2],
                             "text", ReviewContents[k][3]) : k \in 1..n}
    /\ review_id_seq = Cardinality(review)
    /\ metadata = InitMetadata
    /\ collection = InProgressCollections
    /\ \E references \in MergeReferences :
         /\ metadata_to_collection = references[1]
         /\ user_to_metadata = references[2]
         /\ metadata_to_genre = references[3]
    /\ genre = {GenreRow(1, "g1")}
    /\ genre_id_seq = 1
    /\ collection_id_seq = Cardinality(UserIds)
    /\ user_created = << >>
    /\ UsersRegisteredAndIdle
    /\ after_media_seen = << >>
    /\ now = FirstNow
    /\ last = NoCall
    /\ job_storage_up = TRUE
    /\ summary = {}
    /\ summary_id_seq = 0
    /\ recalculate_user_summary = << >>

NextMerge ==
    \/ MergeMetadata
    \/ MergeMetadataInsertsSeen
    \/ MergeMetadataDeletesSeen
    \/ MergeMetadataFindsReviews
    \/ MergeMetadataInsertsReview
    \/ MergeMetadataDeletesReview
    \/ MergeMetadataDeletes
    \/ PostReview
    \/ PostReviewSaves
    \/ DeleteReview
    \/ DeleteReviewDeletes
    \/ CleanupMetadataWithAssociatedUserActivities
    \/ CleanupMetadataCounts
    \/ CleanupMetadataDeletes
    \/ CleanupUserAndMetadataAssociation
    \/ CleanupAssociationCountsSeen
    \/ CleanupAssociationCountsReviews
    \/ CleanupAssociationFindsCollections
    \/ CleanupAssociationFindsMemberships
    \/ CleanupAssociationDeletes

SpecMerge == InitMerge /\ [][NextMerge]_vars

----------------------------------------------------------------------------
(* delete_collection.  The DefaultCollection enum is declared outside this  *)
(* file; its names are those the specification lists, in that order.        *)

MaxCollectionCalls == 2   \* delete_collection requests in one behaviour

\* DefaultCollection::iter() as the names of its variants
DefaultCollections == <<"Watchlist", InProgress, "Completed", "Custom">>

DefaultCollectionNames ==
    {DefaultCollections[i] : i \in DOMAIN DefaultCollections}

\* col.meta(): the description that goes with a default collection
DefaultCollectionMeta(name) == "about " \o name

\* a row of the collection table with its description column
CollectionModel(id, user_id, name, description) ==
    [id |-> id, user_id |-> user_id, name |-> name,
     description |-> description]

ErrDefaultCollection == "Can not delete a default collection"
\* what a caller could have read of the collections when its call arrived
CollectionBefore ==
    [collection |-> collection,
     metadata_to_collection |-> metadata_to_collection]

\* a call of delete_collection or of create_or_update_collection with the
\* row its lookup found
CollectionCall(op, user_id, input, pc) ==
    [op |-> op, user_id |-> user_id, input |-> input, pc |-> pc,
     found |-> None, alone |-> Idle, before |-> CollectionBefore]

CollectionOutcome(c, kind, id, resp, error) ==
    [op |-> c.op, user_id |-> c.user_id, input |-> c.input,
     action |-> "none", replayed |-> FALSE, kind |-> kind, id |-> id,
     resp |-> resp, error |-> error, alone |-> c.alone,
     before |-> c.before]

\* the tables and storages the handlers of the collections leave alone
collection_frame ==
    <<seen, seen_id_seq, metadata, after_media_seen, job_storage_up,
      summary_tables, review, review_id_seq, metadata_to_collection,
      user_created, account_tables, fitness_tables, user_to_metadata,
      genre_tables>>

\* a variant that refuses no name
is_default_collection_never(name) == FALSE

\* the refusal of the default names, before anything is read
is_default_collection(name) ==
    \E i \in DOMAIN DefaultCollections : DefaultCollections[i] = name

\* delete_collection arrives: the refusal of a default name, else the
\* lookup; .one() without an order returns any of the matching rows, and
\* without a row the call returns false
delete_collection(user_id, name) ==
    LET c == CollectionCall("delete_collection", user_id, [name |-> name],
                            "collection_delete")
        found == collection_lookup(collection, user_id, name)
    IN /\ IF is_default_collection(name)
          THEN Arrives(Return(CollectionOutcome(c, "Err", 0, FALSE,
                                                ErrDefaultCollection)))
          ELSE IF found = {}
               THEN Arrives(Return(CollectionOutcome(c, "Ok", 0, FALSE, "")))
               ELSE \E m \in found :
                      Arrives(Goto([c EXCEPT !.found = Some(m)]))
       /\ UNCHANGED <<collection, collection_id_seq, collection_frame>>

\* delete_collection: Collection::delete_by_id() of the row found
DeleteCollectionDeletes ==
    \E k \in DOMAIN calls :
      LET c == calls[k]
      IN /\ c.pc = "collection_delete"
         /\ collection' = {r \in collection : r.id # Unwrap(c.found).id}
         /\ Ends(k, Return(CollectionOutcome(c, "Ok", 0, TRUE, "")))
         /\ UNCHANGED <<collection_id_seq, collection_frame>>

\* the names a request may carry: default ones, one that users gave to
\* their collections, one that no collection has
RequestedNames == {"Watchlist", InProgress, "Reading list", "watchlist"}

DeleteCollection ==
    /\ CallsMade < MaxCollectionCalls
    /\ \E user_id \in UserIds, name \in RequestedNames :
         delete_collection(user_id, name)

\* the names collections carry, in the order that numbers the rows
StoredNames == DefaultCollections \o <<"Reading list">>

\* the row of user u named StoredNames[i]; default collections carry their
\* description, the others none
StoredCollection(u, i) ==
    CollectionModel((u - 1) * Len(StoredNames) + i, u, StoredNames[i],
                    IF i \in DOMAIN DefaultCollections
                    THEN Some(DefaultCollectionMeta(StoredNames[i]))
                    ELSE None)

\* the default collections of the users in `seeded` and the collections
\* of their own of the users in `custom`
StoredCollections(seeded, custom) ==
    {StoredCollection(u, i) : u \in seeded, i \in DOMAIN DefaultCollections}
    \cup {StoredCollection(u, Len(StoredNames)) : u \in custom}

\* memberships are drawn on the "In Progress" collections only: what
\* becomes of the memberships of a deleted collection is the schema's to say
InitCollection ==
    /\ \E seeded \in SUBSET UserIds, custom \in SUBSET UserIds :
         collection = StoredCollections(seeded, custom)
    /\ collection_id_seq = Cardinality(UserIds) * Len(StoredNames)
    /\ metadata_to_collection \in
           SUBSET {MetadataToCollection(3, c.id) :
                     c \in {r \in collection : r.name = InProgress}}
    /\ user_created = << >>
    /\ RegisteredAndIdle
    /\ user_to_metadata = {}
    /\ seen = {}
    /\ seen_id_seq = 0
    /\ metadata = InitMetadata
    /\ after_media_seen = << >>
    /\ now = FirstNow
    /\ last = NoCall
    /\ job_storage_up = TRUE
    /\ summary = {}
    /\ summary_id_seq = 0
    /\ recalculate_user_summary = << >>
    /\ review = {}
    /\ review_id_seq = 0

NextCollection ==
    \/ DeleteCollection
    \/ DeleteCollectionDeletes

SpecCollection == InitCollection /\ [][NextCollection]_vars

----------------------------------------------------------------------------
(* user_created_job.  Every execution the queue delivers walks the default  *)
(* collections; each create_or_update_collection is two statements, the     *)
(* lookup and the save, and executions interleave between statements and    *)
(* with the requests of the users.                                          *)

MaxUserCreatedRuns == 2   \* executions the queue delivers in one behaviour

\* the input user_created_job builds for the default collection `name`
DefaultCollectionInput(name) ==
    [name |-> name, description |-> Some(DefaultCollectionMeta(name)),
     update_id |-> None]

\* an execution of user_created_job: its user, the index of the default
\* collection it is at and the statement it runs next
UserCreatedRun(user_id, col, pc) ==
    [user_id |-> user_id, col |-> col, pc |-> pc]

\* the match of create_or_update_collection: an existing collection of that
\* name ends the call unless an update is asked for
returns_existing(meta, input) == meta # {} /\ ~IsSome(input.update_id)

\* col.save(): an update of the row update_id names, an insert otherwise
collection_save(C, id_seq, user_id, input) ==
    IF IsSome(input.update_id)
    THEN {IF r.id = Unwrap(input.update_id)
          THEN CollectionModel(r.id, user_id, input.name, input.description)
          ELSE r : r \in C}
    ELSE C \cup {CollectionModel(id_seq + 1, user_id, input.name,
                                 input.description)}

\* col.save() is refused: the row saved would be a second one of that user
\* and name, and the schema declares the index
collection_save_refused(C, user_id, input, index) ==
    /\ index = "Unique"
    /\ \E r \in C :
         /\ r.user_id = user_id
         /\ r.name = input.name
         /\ IsSome(input.update_id) => r.id # Unwrap(input.update_id)

\* the tables and storages user_created_job leaves alone
user_created_frame ==
    <<seen, seen_id_seq, metadata, after_media_seen, now, last,
      job_storage_up, summary_tables, review, review_id_seq,
      metadata_to_collection, account_tables, fitness_tables,
      user_to_metadata, genre_tables, calls>>

\* the queue hands UserCreatedJob of a user to a worker
UserCreatedJobStarts ==
    /\ Len(user_created) < MaxUserCreatedRuns
    /\ \E user_id \in UserIds :
         user_created' = Append(user_created,
                                UserCreatedRun(user_id, 1, "find"))
    /\ UNCHANGED <<collection, collection_id_seq, user_created_frame>>

\* Collection::find() of an execution, and the return when a row matches
UserCreatedJobFinds ==
    \E k \in DOMAIN user_created :
      LET run == user_created[k]
      IN /\ run.col \in DOMAIN DefaultCollections
         /\ run.pc = "find"
         /\ LET input == DefaultCollectionInput(DefaultCollections[run.col])
                meta == collection_lookup(collection, run.user_id,
                                          input.name)
            IN user_created' =
                 [user_created EXCEPT ![k] =
                    IF returns_existing(meta, input)
                    THEN UserCreatedRun(run.user_id, run.col + 1, "find")
                    ELSE UserCreatedRun(run.user_id, run.col, "save")]
         /\ UNCHANGED <<collection, collection_id_seq, user_created_frame>>

\* col.save() of an execution; its result is dropped by .ok() and the loop
\* goes on
UserCreatedJobSaves ==
    \E k \in DOMAIN user_created :
      LET run == user_created[k]
      IN /\ run.col \in DOMAIN DefaultCollections
         /\ run.pc = "save"
         /\ LET input == DefaultCollectionInput(DefaultCollections[run.col])
            IN \E index \in UniqueIndexes :
                 IF collection_save_refused(collection, run.user_id, input,
                                            index)
                 THEN UNCHANGED <<collection, collection_id_seq>>
                 ELSE /\ collection' = collection_save(collection,
                                                       collection_id_seq,
                                                       run.user_id, input)
                      /\ collection_id_seq' = collection_id_seq + 1
         /\ user_created' =
              [user_created EXCEPT ![k] =
                 UserCreatedRun(run.user_id, run.col + 1, "find")]
         /\ UNCHANGED user_created_frame

----------------------------------------------------------------------------
(* create_or_update_collection and delete_collection as one user calls      *)
(* them.  The visibility column is left out: no statement reads it.         *)

MaxEditCalls == 2   \* requests made in one behaviour

ErrCollectionSave == "There was an error creating the collection"

\* create_or_update_collection arrives: the lookup by name among the
\* caller's collections; a row found ends the call unless an update is
\* asked for
create_or_update_collection(user_id, input) ==
    LET c == CollectionCall("create_or_update_collection", user_id, input,
                            "collection_save")
        meta == collection_lookup(collection, user_id, input.name)
    IN /\ IF returns_existing(meta, input)
          THEN \E m \in meta :
                 Arrives(Return(CollectionOutcome(c, "Ok", m.id, FALSE, "")))
          ELSE Arrives(Goto(c))
       /\ UNCHANGED <<collection, collection_id_seq, collection_frame>>

\* create_or_update_collection: col.save(), an UPDATE of the row update_id
\* names or an INSERT; an update of an id that no row has and a save the
\* schema refuses are the error of save()
CreateOrUpdateCollectionSaves ==
    \E k \in DOMAIN calls :
      LET c == calls[k]
          updates == IsSome(c.input.update_id)
          id == IF updates THEN Unwrap(c.input.update_id)
                ELSE collection_id_seq + 1
      IN /\ c.pc = "collection_save"
         /\ \E index \in UniqueIndexes :
              IF \/ updates /\ \A r \in collection : r.id # id
                 \/ collection_save_refused(collection, c.user_id, c.input,
                                            index)
              THEN /\ UNCHANGED <<collection, collection_id_seq>>
                   /\ Ends(k, Return(CollectionOutcome(
                                       c, "Err", 0, FALSE,
                                       ErrCollectionSave)))
              ELSE /\ collection' =
                        collection_save(collection, collection_id_seq,
                                        c.user_id, c.input)
                   /\ collection_id_seq' = IF updates THEN collection_id_seq
                                           ELSE id
                   /\ Ends(k, Return(CollectionOutcome(c, "Ok", id, FALSE,
                                                       "")))
         /\ UNCHANGED collection_frame

\* the user whose requests are followed, and what the requests carry: a
\* default name, the name of a collection of their own, a new name; no id,
\* the id of a stored collection or an id that no collection has
EditCallers == {2}
EditNames == {"Watchlist", "Reading list", "Films"}
EditDescriptions == {None, Some("mine")}

CreateOrUpdateCollection ==
    /\ CallsMade < MaxEditCalls
    /\ \E user_id \in EditCallers, name \in EditNames,
          description \in EditDescriptions,
          update_id \in OptionOf({r.id : r \in collection}
                                 \cup {collection_id_seq + 1}) :
         create_or_update_collection(
             user_id, [name |-> name, description |-> description,
                       update_id |-> update_id])

DeleteCollectionEdit ==
    /\ CallsMade < MaxEditCalls
    /\ \E user_id \in EditCallers, name \in EditNames :
         delete_collection(user_id, name)

MaxSeedingCalls == 1   \* requests made while the jobs are delivered

\* a user whose job may not have been executed yet creates a collection
\* under a default name
CreateCollectionWhileSeeding ==
    /\ CallsMade < MaxSeedingCalls
    /\ \E user_id \in EditCallers, description \in EditDescriptions :
         create_or_update_collection(
             user_id, [name |-> DefaultCollections[1],
                       description |-> description, update_id |-> None])

----------------------------------------------------------------------------
\* users registered, none of their jobs run yet
InitUserCreated ==
    /\ collection = {}
    /\ collection_id_seq = 0
    /\ metadata_to_collection = {}
    /\ user_created = << >>
    /\ RegisteredAndIdle
    /\ user_to_metadata = {}
    /\ seen = {}
    /\ seen_id_seq = 0
    /\ metadata = InitMetadata
    /\ after_media_seen = << >>
    /\ now = FirstNow
    /\ last = NoCall
    /\ job_storage_up = TRUE
    /\ summary = {}
    /\ summary_id_seq = 0
    /\ recalculate_user_summary = << >>
    /\ review = {}
    /\ review_id_seq = 0

NextUserCreated ==
    \/ UserCreatedJobStarts
    \/ UserCreatedJobFinds
    \/ UserCreatedJobSaves
    \/ CreateCollectionWhileSeeding
    \/ CreateOrUpdateCollectionSaves

SpecUserCreated == InitUserCreated /\ [][NextUserCreated]_vars

----------------------------------------------------------------------------
(* progress_update with a job storage that may refuse the push *)

MaxPushCalls == 2   \* requests made in one behaviour

\* the locator a request for metadata of the given lot carries
ActiveLocator(lot) ==
    [show_season_number |-> IF lot = "Show" THEN Some(1) ELSE None,
     show_episode_number |-> IF lot = "Show" THEN Some(1) ELSE None,
     podcast_episode_number |-> None]

\* what the requests of this scenario carry: a progress for the book, dated
\* today when it is 100, with or without identifier, and a progress for
\* the show without its locator
PushInputs ==
    {MakeInput(3, progress,
               IF progress = Some(100) THEN Some(Today) ELSE None,
               ActiveLocator("Book"), identifier) :
       progress \in {None, Some(60), Some(100)},
       identifier \in IdentifierChoices}
    \cup {MakeInput(1, Some(60), None, ActiveLocator("Book"), None)}

ProgressUpdatePush ==
    /\ CallsMade < MaxPushCalls
    /\ \E input \in PushInputs : progress_update(input, 1)

\* the job storage becomes unavailable, or available again
JobStorageFlips ==
    /\ job_storage_up' = ~job_storage_up
    /\ UNCHANGED <<seen, seen_id_seq, metadata, after_media_seen, now, last,
                   summary_tables, coordinator_tables, calls>>

NextPush ==
    \/ ProgressUpdatePush
    \/ JobStorageFlips
    \/ ProgressUpdateFindsIdentifier
    \/ ProgressUpdateUpdates
    \/ ProgressUpdateFindsLastSeen
    \/ ProgressUpdateDrops
    \/ ProgressUpdateFindsMetadata
    \/ ProgressUpdateInserts
    \/ ProgressUpdateReadsMetadata
    \/ ProgressUpdatePushesJob

SpecPush == Init /\ [][NextPush]_vars

----------------------------------------------------------------------------
(* progress_update on a table that holds records already: records under    *)
(* way, of which a pair may hold two after requests that raced or after a  *)
(* merge, a completed record that carries an identifier, and a record of   *)
(* another user.                                                           *)

MaxActiveCalls == 2   \* requests made in one behaviour

\* a record written before the first request of the behaviour
ActiveSeenRow(id, user_id, metadata_id, progress, t, identifier) ==
    [id |-> id,
     progress |-> progress,
     user_id |-> user_id,
     metadata_id |-> metadata_id,
     started_on |-> IF progress = 100 THEN None ELSE Some(DateOf(t)),
     finished_on |-> IF progress = 100 THEN Some(DateOf(t)) ELSE None,
     last_updated_on |-> t,
     identifier |-> identifier,
     dropped |-> FALSE,
     extra_information |-> None]

\* the records of user 1 the table may hold, and the record of user 2 it
\* holds
ActiveSeenRows ==
    {ActiveSeenRow(1, 1, 3, 40, 1, None),
     ActiveSeenRow(2, 1, 3, 0, 0, None),
     ActiveSeenRow(3, 1, 3, 100, 1, Some("a"))}

OtherSeenRow == ActiveSeenRow(4, 2, 3, 40, 1, None)

\* the metadata the requests are for: the book
ActiveMetadataIds == {3}

\* a request of user 1: a progress under way, or a completion dated today
\* or yesterday
ProgressUpdateActive ==
    /\ CallsMade < MaxActiveCalls
    /\ \E metadata_id \in ActiveMetadataIds,
          progress \in {Some(60), Some(100)},
          identifier \in IdentifierChoices :
         \E offset \in IF progress = Some(100)
                       THEN {Some(-1), Some(0)} ELSE {None} :
           progress_update(
               MakeInput(metadata_id, progress, RequestDate(offset, now),
                         ActiveLocator(InitMetadata[metadata_id].lot),
                         identifier),
               1)

InitActive ==
    /\ \E rows \in SUBSET ActiveSeenRows : seen = rows \cup {OtherSeenRow}
    /\ seen_id_seq = Cardinality(ActiveSeenRows) + 1
    /\ metadata = InitMetadata
    /\ after_media_seen = << >>
    /\ now = FirstNow
    /\ last = NoCall
    /\ job_storage_up = TRUE
    /\ summary = {}
    /\ summary_id_seq = 0
    /\ recalculate_user_summary = << >>
    /\ review = {}
    /\ review_id_seq = 0
    /\ collection = {}
    /\ metadata_to_collection = {}
    /\ collection_id_seq = 0
    /\ user_created = << >>
    /\ RegisteredAndIdle
    /\ user_to_metadata = {}

NextActive ==
    \/ ProgressUpdateActive
    \/ ProgressUpdateFindsIdentifier
    \/ ProgressUpdateUpdates
    \/ ProgressUpdateFindsMetadata
    \/ ProgressUpdateInserts
    \/ ProgressUpdateReadsMetadata
    \/ ProgressUpdatePushesJob

SpecActive == InitActive /\ [][NextActive]_vars

----------------------------------------------------------------------------
(* calculate_user_summary on a show whose metadata declares an episode      *)
(* twice: show 12 lists episode 1 of season 1 two times.                    *)

\* the rows of the seen table: completed rows of show 12 on the episode
\* declared twice and on the one declared once, rows of show 1 and of the
\* book, a started row, rows of user 2
DeclaredTwiceContents ==
       {SeenContent(u, 12, 100, ShowLocator(1, e)) :
          u \in UserIds, e \in {1, 2}}
  \cup {SeenContent(1, 1, 100, l) :
          l \in {ShowLocator(1, 1), ShowLocator(2, 1)}}
  \cup {SeenContent(1, 3, 100, None),
        SeenContent(1, 12, 60, ShowLocator(1, 1))}

InitDeclaredTwice ==
    /\ \E n \in 0..MaxSeen :
         \E contents \in [1..n -> DeclaredTwiceContents] :
           seen = SeenTable(contents)
    /\ user = Users(UserIds)
    /\ summary = {}
    /\ InitSummaryRest

NextDeclaredTwice ==
    \/ RegenerateUserSummariesOnce
    \/ RegenerateUserSummariesCleansUp
    \/ RegenerateUserSummariesStreams
    \/ CalculateUserSummaryInserts

SpecDeclaredTwice == InitDeclaredTwice /\ [][NextDeclaredTwice]_vars

----------------------------------------------------------------------------
(* user_summary, and the recomputation under a queue that executes every    *)
(* job it holds                                                             *)

MaxSummaryRequests == 3   \* requests and job executions begun before the last request

\* latest_user_summary: the row of the user created last, or the default
\* model when the user has none (unwrap_or_default)
latest_user_summary(rows, user_id) ==
    LET mine == {s \in rows : s.user_id = user_id}
    IN IF mine = {}
       THEN {summary_insert(0, 0, SummaryDefault, 0)}
       ELSE {s \in mine : \A t \in mine : t.created_on <= s.created_on}

UserSummaryOutcome(c, ls) ==
    [op |-> c.op, user_id |-> c.user_id, input |-> NoInput,
     action |-> "none", replayed |-> FALSE, kind |-> "Ok", id |-> ls.id,
     error |-> "", media |-> ls.data, calculated_on |-> ls.created_on,
     alone |-> c.alone, before |-> c.before]

\* user_summary: one query on the summary table
user_summary(user_id) ==
    /\ \E ls \in latest_user_summary(summary, user_id) :
         Arrives(Return(UserSummaryOutcome(
                          SummaryCall("user_summary", user_id, "done"), ls)))
    /\ UNCHANGED <<summary_tables, summary_frame>>

UserSummary ==
    /\ CallsMade < MaxSummaryRequests
    /\ \E u \in user : user_summary(u.id)

RegenerateUserSummaryRequest ==
    /\ CallsMade < MaxSummaryRequests
    /\ \E u \in user : regenerate_user_summary(u.id)

\* the queue executes the oldest job it holds
RecalculateUserSummaryJobExecuted ==
    /\ Len(recalculate_user_summary) > 0
    /\ recalculate_user_summary_job

NextSummaryLive ==
    \/ RegenerateUserSummaryRequest
    \/ RegenerateUserSummaryPushes
    \/ RecalculateUserSummaryJobExecuted
    \/ CalculateUserSummaryInserts
    \/ UserSummary

\* every job in the queue is eventually executed, and every call under way
\* is polled until it returns
SpecSummaryLive ==
    /\ InitSummary
    /\ [][NextSummaryLive]_vars
    /\ WF_vars(RecalculateUserSummaryJobExecuted)
    /\ WF_vars(RegenerateUserSummaryPushes)
    /\ WF_vars(CalculateUserSummaryInserts)

----------------------------------------------------------------------------
(* The collections as one user edits them, every user having the default    *)
(* collections.                                                             *)

\* user_created_job has run once for every user; some users have a
\* collection of their own
InitCollectionEdit ==
    /\ \E custom \in SUBSET UserIds :
         collection = StoredCollections(UserIds, custom)
    /\ collection_id_seq = Cardinality(UserIds) * Len(StoredNames)
    /\ metadata_to_collection = {}
    /\ user_created = << >>
    /\ RegisteredAndIdle
    /\ user_to_metadata = {}
    /\ seen = {}
    /\ seen_id_seq = 0
    /\ metadata = InitMetadata
    /\ after_media_seen = << >>
    /\ now = FirstNow
    /\ last = NoCall
    /\ job_storage_up = TRUE
    /\ summary = {}
    /\ summary_id_seq = 0
    /\ recalculate_user_summary = << >>
    /\ review = {}
    /\ review_id_seq = 0

NextCollectionEdit ==
    \/ CreateOrUpdateCollection
    \/ CreateOrUpdateCollectionSaves
    \/ DeleteCollectionEdit
    \/ DeleteCollectionDeletes

SpecCollectionEdit == InitCollectionEdit /\ [][NextCollectionEdit]_vars

----------------------------------------------------------------------------
(* register_user: three statements on the user table, with no transaction *)
(* around them, then the push of the UserCreatedJob.  Calls are served     *)
(* concurrently, so each call is an execution with the statement it runs   *)
(* next.  update_user rewrites the name of a registered user.              *)

MaxRegisterCalls == 3   \* register_user calls in one behaviour
RegisterNames == {"ann", "bob"}

\* a register_user call: its username, the statement it runs next, the lot
\* it has computed and what it returned
RegisterRun(username, pc, lot, result, id) ==
    [username |-> username, pc |-> pc, lot |-> lot, result |-> result,
     id |-> id]

\* User::find().filter(Name.eq(username)).count()
count_by_name(U, username) == Cardinality({r \in U : r.name = username})

\* the lot of the new user: Admin when User::find().count() is 0
lot_for_count(n) == IF n = 0 THEN "Admin" ELSE "Normal"

\* the tables and storages register_user and update_user leave alone
register_tables ==
    <<seen, seen_id_seq, metadata, after_media_seen, job_storage_up,
      summary_tables, review, review_id_seq, collection,
      metadata_to_collection, collection_id_seq, fitness_tables,
      users_config, user_to_metadata, genre_tables>>
register_frame == <<register_tables, now, last, calls>>

\* the call arrives: with registration disabled it returns at once
RegisterUserStarts ==
    /\ Len(register) < MaxRegisterCalls
    /\ \E username \in RegisterNames :
         register' = Append(register,
             IF ~allow_registration
             THEN RegisterRun(username, "done", "", "Disabled", 0)
             ELSE RegisterRun(username, "count_name", "", "", 0))
    /\ UNCHANGED <<user, user_id_seq, user_created, register_frame>>

\* the count of the users of that name, and the refusal when there is one
RegisterUserCountsName ==
    \E k \in DOMAIN register :
      LET run == register[k]
      IN /\ run.pc = "count_name"
         /\ register' =
              [register EXCEPT ![k] =
                 IF count_by_name(user, run.username) # 0
                 THEN [run EXCEPT !.pc = "done",
                                  !.result = "UsernameAlreadyExists"]
                 ELSE [run EXCEPT !.pc = "count_all"]]
         /\ UNCHANGED <<user, user_id_seq, user_created, register_frame>>

\* the count of all users, which decides the lot
RegisterUserCountsAll ==
    \E k \in DOMAIN register :
      LET run == register[k]
      IN /\ run.pc = "count_all"
         /\ register' =
              [register EXCEPT ![k] =
                 [run EXCEPT !.pc = "insert",
                             !.lot = lot_for_count(Cardinality(user))]]
         /\ UNCHANGED <<user, user_id_seq, user_created, register_frame>>

\* user.insert(), whose unwrap() panics when the schema refuses a second
\* user of the name
RegisterUserInserts ==
    \E k \in DOMAIN register :
      LET run == register[k]
          id == user_id_seq + 1
      IN /\ run.pc = "insert"
         /\ \E index \in UniqueIndexes :
              IF index = "Unique" /\ count_by_name(user, run.username) # 0
              THEN /\ UNCHANGED <<user, user_id_seq>>
                   /\ register' =
                        [register EXCEPT ![k] =
                           [run EXCEPT !.pc = "done", !.result = "Panic"]]
              ELSE /\ user' = user \cup {UserModel(id, run.username,
                                                   run.lot, None)}
                   /\ user_id_seq' = id
                   /\ register' =
                        [register EXCEPT ![k] =
                           [run EXCEPT !.pc = "push", !.id = id]]
         /\ UNCHANGED <<user_created, register_frame>>

\* storage.push(UserCreatedJob): the push fails when the job storage is
\* down, after the user has been inserted
RegisterUserPushes ==
    \E k \in DOMAIN register :
      LET run == register[k]
      IN /\ run.pc = "push"
         /\ user_created' =
              IF job_storage_up
              THEN Append(user_created, UserCreatedRun(run.id, 1, "find"))
              ELSE user_created
         /\ register' =
              [register EXCEPT ![k] =
                 [run EXCEPT !.pc = "done",
                             !.result = IF job_storage_up THEN "Ok"
                                        ELSE "Err"]]
         /\ UNCHANGED <<user, user_id_seq, register_frame>>

\* user_by_id: the row, if there is one
user_by_id(U, user_id) == {r \in U : r.id = user_id}

\* what a caller could have read of the users when its call arrived
UpdateUserBefore == [user |-> user]

\* a call of update_user: the caller and the username of the input
UpdateUserCall(user_id, username) ==
    [op |-> "update_user", user_id |-> user_id,
     input |-> [username |-> username], pc |-> "user_update",
     alone |-> Idle, before |-> UpdateUserBefore]

UpdateUserOutcome(c, kind, id) ==
    [op |-> c.op, user_id |-> c.user_id, input |-> c.input,
     action |-> "none", replayed |-> FALSE, kind |-> kind, id |-> id,
     error |-> "", alone |-> c.alone, before |-> c.before]

\* update_user arrives: User::find_by_id(), whose second unwrap() panics
\* when no row has the id
update_user(user_id, username) ==
    LET c == UpdateUserCall(user_id, username)
    IN /\ Arrives(IF user_by_id(user, user_id) = {}
                  THEN Return(UpdateUserOutcome(c, "Panic", 0))
                  ELSE Goto(c))
       /\ UNCHANGED <<user, user_id_seq, register, user_created,
                      register_tables>>

\* the callers are registered users; the email and the password of the
\* input are columns that no statement reads
UpdateUser ==
    /\ Len(register) + CallsMade < MaxRegisterCalls
    /\ \E r \in user, username \in OptionOf(RegisterNames) :
         update_user(r.id, username)

\* user_obj.update(): the UPDATE writes the columns that were set, the name
\* when the input carries one and the configuration allows the change;
\* unwrap() panics when the statement is refused
UpdateUserUpdates ==
    \E k \in DOMAIN calls :
      LET c == calls[k]
          sets_name == IsSome(c.input.username) /\ allow_changing_username
          written(r) == IF sets_name
                        THEN [r EXCEPT !.name = Unwrap(c.input.username)]
                        ELSE r
      IN /\ c.pc = "user_update"
         /\ \E index \in UniqueIndexes :
              IF \/ user_by_id(user, c.user_id) = {}
                 \/ /\ index = "Unique"
                    /\ sets_name
                    /\ \E r \in user : /\ r.id # c.user_id
                                       /\ r.name = Unwrap(c.input.username)
              THEN /\ UNCHANGED user
                   /\ Ends(k, Return(UpdateUserOutcome(c, "Panic", 0)))
              ELSE /\ user' = {IF r.id = c.user_id THEN written(r) ELSE r :
                                 r \in user}
                   /\ Ends(k, Return(UpdateUserOutcome(c, "Ok", c.user_id)))
         /\ UNCHANGED <<user_id_seq, register, user_created,
                        register_tables>>

\* an empty installation, with registration and the change of usernames
\* allowed or not
InitRegister ==
    /\ user = {}
    /\ user_id_seq = 0
    /\ register = << >>
    /\ allow_registration \in BOOLEAN
    /\ allow_changing_username \in BOOLEAN
    /\ user_to_metadata = {}
    /\ genre = {}
    /\ genre_id_seq = 0
    /\ metadata_to_genre = {}
    /\ exercise = {}
    /\ exercise_id_seq = 0
    /\ file_storage = << >>
    /\ update_exercise = << >>
    /\ calls = << >>
    /\ collection = {}
    /\ collection_id_seq = 0
    /\ metadata_to_collection = {}
    /\ user_created = << >>
    /\ seen = {}
    /\ seen_id_seq = 0
    /\ metadata = InitMetadata
    /\ after_media_seen = << >>
    /\ now = FirstNow
    /\ last = NoCall
    /\ job_storage_up = TRUE
    /\ summary = {}
    /\ summary_id_seq = 0
    /\ recalculate_user_summary = << >>
    /\ review = {}
    /\ review_id_seq = 0

NextRegister ==
    \/ RegisterUserStarts
    \/ RegisterUserCountsName
    \/ RegisterUserCountsAll
    \/ RegisterUserInserts
    \/ RegisterUserPushes
    \/ UpdateUser
    \/ UpdateUserUpdates

SpecRegister == InitRegister /\ [][NextRegister]_vars

----------------------------------------------------------------------------
(* create_user_yank_integration, delete_user_yank_integration and           *)
(* yank_integrations_data_for_user: the integrations are a list stored in   *)
(* the user's row; the progress an integration reports is committed with    *)
(* commit_media and progress_update.  commit_media and create_custom_media  *)
(* are requests of their own as well, followed apart from the               *)
(* integrations.                                                            *)

MaxYankCalls == 4   \* integration calls in one behaviour
YankBaseUrls == {"http://abs"}
YankIds == 1..2     \* the ids a delete request may name
YankUserIds == {1}  \* the user whose integrations are followed

\* the list a row holds: an absent column is the empty list
integrations_of(row) ==
    IF IsSome(row.yank_integrations) THEN Unwrap(row.yank_integrations)
    ELSE << >>

UserYankIntegration(id, timestamp, base_url) ==
    [id |-> id, timestamp |-> timestamp, base_url |-> base_url]

\* integrations.len() + 1
new_integration_id(integrations) == Len(integrations) + 1

\* integrations.into_iter().filter(|i| i.id != yank_integration_id)
remaining_integrations(integrations, yank_integration_id) ==
    LET keeps(i) == i.id # yank_integration_id
    IN SelectSeq(integrations, keeps)

\* what a caller could have read of its row when its call arrived
YankBefore == [user |-> user, metadata |-> metadata, seen |-> seen]

\* no media is named
NoMedia == MetadataModel("", "", "")

\* a call of one of the three handlers or of commit_media, with the row
\* user_by_id returned, the instant read for a new integration, the
\* progress collected, the media commit_media is called for and the locals
\* of the progress_update under way; for commit_media_internal the id of
\* the metadata inserted, the genres still to associate and the genre found
YankCall(op, user_id, yank_integration_id, base_url, pc) ==
    [op |-> op, user_id |-> user_id,
     yank_integration_id |-> yank_integration_id, base_url |-> base_url,
     pc |-> pc, row |-> None, timestamp |-> 0, integrations |-> << >>,
     progress_updates |-> << >>, updated_count |-> 0, media |-> NoMedia,
     input |-> NoInput, prev_seen |-> None, action |-> "none",
     last_seen |-> None, lot |-> "", utc_now |-> 0, seen_item |-> None,
     metadata_id |-> 0, genres |-> << >>, db_genre |-> None,
     alone |-> Idle, before |-> YankBefore]

YankOutcome(c, kind, id, error) ==
    [op |-> c.op, user_id |-> c.user_id, input |-> NoInput,
     action |-> "none", replayed |-> FALSE, kind |-> kind, id |-> id,
     error |-> error, alone |-> c.alone, before |-> c.before]

yank_frame ==
    <<seen, seen_id_seq, metadata, after_media_seen, job_storage_up,
      summary_tables, review, review_id_seq, collection,
      metadata_to_collection, collection_id_seq, user_created, user_id_seq,
      register, users_config, fitness_tables, user_to_metadata,
      genre_tables>>

\* a call of create_user_yank_integration or delete_user_yank_integration
\* arrives: user_by_id, whose error is returned; the new integration is
\* built with Utc::now() before the UPDATE is awaited
user_yank_integration(c) ==
    /\ IF user_by_id(user, c.user_id) = {}
       THEN Arrives(Return(YankOutcome(c, "Err", 0, ErrNoUserFound)))
       ELSE \E row \in user_by_id(user, c.user_id) :
              Arrives(Goto([c EXCEPT
                              !.row = Some(row),
                              !.timestamp =
                                 IF c.op = "create_user_yank_integration"
                                 THEN now ELSE @]))
    /\ UNCHANGED <<user, yank_frame>>

\* user.update(): the UPDATE writes the column set to the row of that id
user_update(U, row, value) ==
    {IF r.id = row.id THEN [r EXCEPT !.yank_integrations = value] ELSE r :
       r \in U}

\* create_user_yank_integration: the list read with one more integration
\* is written to the row
CreateUserYankIntegrationUpdates ==
    \E k \in DOMAIN calls :
      LET c == calls[k]
          integrations == integrations_of(Unwrap(c.row))
          id == new_integration_id(integrations)
          pushed == Append(integrations,
                           UserYankIntegration(id, c.timestamp,
                                               c.base_url))
      IN /\ c.pc = "yank_create_update"
         /\ user' = user_update(user, Unwrap(c.row), Some(pushed))
         /\ Ends(k, Return(YankOutcome(
                             c, IF user_by_id(user, c.user_id) = {}
                                THEN "Err" ELSE "Ok", id, "")))
         /\ UNCHANGED yank_frame

\* delete_user_yank_integration: the list read without the integrations of
\* that id is written to the row
DeleteUserYankIntegrationUpdates ==
    \E k \in DOMAIN calls :
      LET c == calls[k]
          remaining ==
            remaining_integrations(integrations_of(Unwrap(c.row)),
                                   c.yank_integration_id)
          update_value == IF remaining = << >> THEN None
                          ELSE Some(remaining)
      IN /\ c.pc = "yank_delete_update"
         /\ user' = user_update(user, Unwrap(c.row), update_value)
         /\ Ends(k, Return(YankOutcome(
                             c, IF user_by_id(user, c.user_id) = {}
                                THEN "Err" ELSE "Ok",
                             c.yank_integration_id, "")))
         /\ UNCHANGED yank_frame

CreateUserYankIntegration ==
    /\ CallsMade < MaxYankCalls
    /\ \E user_id \in YankUserIds, base_url \in YankBaseUrls :
         user_yank_integration(
             YankCall("create_user_yank_integration", user_id, 0, base_url,
                      "yank_create_update"))

DeleteUserYankIntegration ==
    /\ CallsMade < MaxYankCalls
    /\ \E user_id \in YankUserIds, yank_integration_id \in YankIds :
         user_yank_integration(
             YankCall("delete_user_yank_integration", user_id,
                      yank_integration_id, "", "yank_delete_update"))

\* what audiobookshelf_progress may answer: an error, or the progress of
\* the items in progress.  The service reports the book of metadata row 3
\* and an audio book no row stands for.
IntegrationMedia(lot, source, identifier, progress) ==
    [lot |-> lot, source |-> source, identifier |-> identifier,
     progress |-> progress]

AudiobookshelfResponses ==
    {None,
     Some(<<IntegrationMedia("Book", "Openlibrary", "b1", 50)>>),
     Some(<<IntegrationMedia("AudioBook", "Audible", "a1", 50),
            IntegrationMedia("Book", "Openlibrary", "b1", 100)>>)}

\* the input yank_integrations_data_for_user gives progress_update
YankProgressInput(metadata_id, pu, today) ==
    MakeInput(metadata_id, Some(pu.progress), Some(today),
              [show_season_number |-> None, show_episode_number |-> None,
               podcast_episode_number |-> None],
              None)

\* yank_integrations_data_for_user arrives: user_by_id, whose error is
\* returned; without integrations the count is 0
yank_integrations_data_for_user(user_id) ==
    LET c == YankCall("yank_integrations_data_for_user", user_id, 0, "",
                      "audiobookshelf_progress")
    IN /\ IF user_by_id(user, user_id) = {}
          THEN Arrives(Return(YankDataOutcome(c, "Err", 0, ErrNoUserFound)))
          ELSE \E row \in user_by_id(user, user_id) :
                 IF IsSome(row.yank_integrations)
                 THEN Arrives(Goto([c EXCEPT !.integrations =
                                               integrations_of(row)]))
                 ELSE Arrives(Return(YankDataOutcome(c, "Ok", 0, "")))
       /\ UNCHANGED <<user, yank_frame>>

YankIntegrationsDataForUser ==
    /\ CallsMade < MaxYankCalls
    /\ \E user_id \in YankUserIds : yank_integrations_data_for_user(user_id)

\* audiobookshelf_progress of the next integration: the data of an answer
\* is collected, an error is passed over; after the last integration the
\* loop over the progress collected begins
YankAudiobookshelfProgress ==
    \E k \in DOMAIN calls :
      LET c == calls[k]
      IN /\ c.pc = "audiobookshelf_progress"
         /\ \E response \in AudiobookshelfResponses :
              LET collected ==
                    [c EXCEPT !.integrations = Tail(@),
                              !.progress_updates =
                                 IF IsSome(response)
                                 THEN @ \o Unwrap(response) ELSE @]
              IN Ends(k, IF collected.integrations = << >>
                         THEN yank_loop(collected)
                         ELSE Goto(collected))
         /\ UNCHANGED <<user, yank_frame>>

ErrSourceNotSupported == "This source is not supported"

\* the rows Metadata::find() filtered on lot, source and identifier selects
media_exists_in_database(M, media) == {m \in DOMAIN M : M[m] = media}

\* get_provider: no provider for the source Custom; the match on the lot
\* of a Tmdb or Anilist media is unreachable!() for any other lot
get_provider(lot, source) ==
    IF source = "Custom" THEN "Err"
    ELSE IF source = "Tmdb" /\ lot \notin {"Show", "Movie"} THEN "Panic"
    ELSE IF source = "Anilist" /\ lot \notin {"Anime", "Manga"} THEN "Panic"
    ELSE "Ok"

\* commit_media returns id: to the client, or to
\* yank_integrations_data_for_user, which calls progress_update with it
commit_media_returns(c, id) ==
    IF c.op = "commit_media" THEN Return(YankOutcome(c, "Ok", id, ""))
    ELSE Goto([c EXCEPT
                 !.input = YankProgressInput(id, Head(c.progress_updates),
                                             Today),
                 !.pc = "prev_seen"])

\* an error of commit_media, which `?` passes on, or a panic
commit_media_fails(c, kind, error) ==
    IF c.op = "commit_media" THEN Return(YankOutcome(c, kind, 0, error))
    ELSE Return(YankDataOutcome(c, kind, 0, error))

\* media_exists_in_database has answered m: the id of a row found is
\* returned; else details_from_provider is called, which begins with
\* get_provider
commit_media_finds(c, m) ==
    LET provider == get_provider(c.media.lot, c.media.source)
    IN IF IsSome(m) THEN commit_media_returns(c, Unwrap(m))
       ELSE IF provider = "Ok"
            THEN Goto([c EXCEPT !.pc = "details_from_provider"])
            ELSE commit_media_fails(
                     c, provider,
                     IF provider = "Err" THEN ErrSourceNotSupported ELSE "")

\* commit_media arrives
commit_media(lot, source, identifier) ==
    LET c == [YankCall("commit_media", 0, 0, "",
                       "media_exists_in_database")
                EXCEPT !.media = MetadataModel(lot, source, identifier)]
    IN /\ \E m \in OneOf(media_exists_in_database(metadata, c.media)) :
            Arrives(commit_media_finds(c, m))
       /\ UNCHANGED <<user, yank_frame>>

\* the media a client names: the book stored, a book not stored, and a
\* book of a source without provider or with providers of other lots
CommitMediaItems ==
    {MetadataModel("Book", "Openlibrary", "b1"),
     MetadataModel("Book", "Openlibrary", "b2"),
     MetadataModel("Book", "Custom", "b2"),
     MetadataModel("Book", "Tmdb", "b2")}

MaxMediaCalls == 3   \* media requests in one behaviour

CommitMedia ==
    /\ CallsMade < MaxMediaCalls
    /\ \E media \in CommitMediaItems :
         commit_media(media.lot, media.source, media.identifier)

\* the same query in a call made by yank_integrations_data_for_user
YankMediaExists ==
    \E k \in DOMAIN calls :
      LET c == calls[k]
      IN /\ c.pc = "media_exists_in_database"
         /\ \E m \in OneOf(media_exists_in_database(metadata, c.media)) :
              Ends(k, commit_media_finds(c, m))
         /\ UNCHANGED <<user, yank_frame>>

\* the genres a client gives a custom media, and those the providers
\* give: one genre to an audio book, two to any other media
GenreLists == {<< >>, <<"g1">>}
ProviderGenres(media) ==
    IF media.lot = "AudioBook" THEN <<"g1">> ELSE <<"g1", "g2">>

\* details_from_provider: the provider answers with the details, of which
\* the genres are followed, or its error is returned
CommitMediaDetailsFromProvider ==
    \E k \in DOMAIN calls :
      LET c == calls[k]
      IN /\ c.pc = "details_from_provider"
         /\ \E answered \in BOOLEAN :
              Ends(k, IF answered
                      THEN Goto([c EXCEPT !.genres = ProviderGenres(c.media),
                                          !.pc = "commit_media_internal"])
                      ELSE commit_media_fails(c, "Err", ""))
         /\ UNCHANGED <<user, yank_frame>>

\* the id the database gives the next row of the metadata table
next_metadata_id(M) ==
    (CHOOSE m \in DOMAIN M : \A n \in DOMAIN M : n <= m) + 1

\* the metadata the genres are associated with: the row
\* commit_media_internal inserted or the one update_media was called for
genre_metadata_id(c) ==
    IF c.op = "create_custom_media" THEN c.input.media_id
    ELSE c.metadata_id

\* a panic inside associate_genre_with_metadata, which the .ok() of its
\* caller does not catch
associate_genre_panics(c) ==
    IF c.op = "create_custom_media"
    THEN Return(DeleteOutcome(c, "Panic", 0, ""))
    ELSE IF c.op = "update_media"
         THEN Return(YankOutcome(c, "Panic", 0, ""))
         ELSE commit_media_fails(c, "Panic", "")

\* the head of the loop over the genres, in commit_media_internal after
\* the INSERT and in update_media after the save: the lookup of the next
\* genre; after the last one update_media returns, and
\* commit_media_internal returns the id to create_custom_media, which
\* looks the collection Custom up, or to commit_media
after_genre(c) ==
    IF c.genres # << >> THEN Goto([c EXCEPT !.pc = "genre_find"])
    ELSE IF c.op = "create_custom_media"
         THEN Goto([c EXCEPT !.pc = "custom_collection_find"])
         ELSE IF c.op = "update_media"
              THEN Return(YankOutcome(c, "Ok", c.metadata_id, ""))
              ELSE commit_media_returns(c, c.metadata_id)

\* commit_media_internal: the INSERT of the metadata, whose unwrap() panics
\* when the statement is refused
CommitMediaInternalInserts ==
    \E k \in DOMAIN calls :
      LET c == calls[k]
          id == next_metadata_id(metadata)
          stored == media_exists_in_database(metadata, c.media) # {}
      IN /\ c.pc = "commit_media_internal"
         /\ \E index \in UniqueIndexes :
              IF stored /\ index = "Unique"
              THEN /\ Ends(k, commit_media_fails(c, "Panic", ""))
                   /\ UNCHANGED metadata
              ELSE /\ metadata' = metadata @@ (id :> c.media)
                   /\ Ends(k, after_genre([c EXCEPT !.metadata_id = id]))
         /\ UNCHANGED <<seen, seen_id_seq, after_media_seen,
                        progress_frame>>

\* what the steps of associate_genre_with_metadata leave alone
genre_frame ==
    <<seen, seen_id_seq, metadata, after_media_seen, job_storage_up,
      summary_tables, review, review_id_seq, collection,
      metadata_to_collection, collection_id_seq, user_created,
      account_tables, fitness_tables, user_to_metadata>>

\* Genre::find() filtered on the name
genre_by_name(G, name) == {g \in G : g.name = name}

\* associate_genre_with_metadata: the lookup of the genre by its name
AssociateGenreFinds ==
    \E k \in DOMAIN calls :
      LET c == calls[k]
      IN /\ c.pc = "genre_find"
         /\ \E found \in OneOf(genre_by_name(genre, Head(c.genres))) :
              Ends(k, Goto([c EXCEPT
                              !.db_genre = found,
                              !.pc = IF IsSome(found)
                                     THEN "metadata_to_genre_insert"
                                     ELSE "genre_insert"]))
         /\ UNCHANGED <<genre_tables, genre_frame>>

\* associate_genre_with_metadata: the INSERT of a genre not found, whose
\* unwrap() panics when the statement is refused
AssociateGenreInsertsGenre ==
    \E k \in DOMAIN calls :
      LET c == calls[k]
          name == Head(c.genres)
          id == genre_id_seq + 1
      IN /\ c.pc = "genre_insert"
         /\ \E index \in UniqueIndexes :
              IF index = "Unique" /\ genre_by_name(genre, name) # {}
              THEN /\ Ends(k, associate_genre_panics(c))
                   /\ UNCHANGED <<genre, genre_id_seq>>
              ELSE /\ genre' = genre \cup {GenreRow(id, name)}
                   /\ genre_id_seq' = id
                   /\ Ends(k, Goto([c EXCEPT
                                      !.db_genre = Some(GenreRow(id, name)),
                                      !.pc = "metadata_to_genre_insert"]))
         /\ UNCHANGED <<metadata_to_genre, genre_frame>>

\* associate_genre_with_metadata: the INSERT of the association, refused
\* for a metadata that is gone; its result is discarded by .ok()
AssociateGenreInserts ==
    \E k \in DOMAIN calls :
      LET c == calls[k]
          intermediate == MetadataToGenre(genre_metadata_id(c),
                                          Unwrap(c.db_genre).id)
      IN /\ c.pc = "metadata_to_genre_insert"
         /\ metadata_to_genre' =
               IF intermediate.metadata_id \in DOMAIN metadata
               THEN metadata_to_genre \cup {intermediate}
               ELSE metadata_to_genre
         /\ Ends(k, after_genre([c EXCEPT !.genres = Tail(@),
                                          !.db_genre = None]))
         /\ UNCHANGED <<genre, genre_id_seq, genre_frame>>

\* update_media arrives: Metadata::find_by_id, whose unwrap() panics when
\* the row is not stored
update_media(metadata_id, genres) ==
    LET c == [YankCall("update_media", 0, 0, "", "media_save")
                EXCEPT !.metadata_id = metadata_id, !.genres = genres]
    IN /\ Arrives(IF metadata_id \in DOMAIN metadata THEN Goto(c)
                  ELSE Return(YankOutcome(c, "Panic", 0, "")))
       /\ UNCHANGED <<user, yank_frame>>

\* the metadata an update is asked for: the book, and the row a media
\* request may have inserted
UpdateMediaIds == {3, 4}

UpdateMedia ==
    /\ CallsMade < MaxMediaCalls
    /\ \E metadata_id \in UpdateMediaIds, genres \in GenreLists :
         update_media(metadata_id, genres)

\* update_media: meta.save(), which writes the title, the description,
\* the images, the creators and the specifics, none of which is followed,
\* and whose result .ok() discards
UpdateMediaSaves ==
    \E k \in DOMAIN calls :
      LET c == calls[k]
      IN /\ c.pc = "media_save"
         /\ Ends(k, after_genre(c))
         /\ UNCHANGED <<user, yank_frame>>

\* DefaultCollection::Custom.to_string()
Custom == "Custom"

\* Uuid::new_v4().to_string(): an identifier no row carries
Uuids == {"u1", "u2", "u3"}
new_v4(M) == {u \in Uuids : \A m \in DOMAIN M : M[m].identifier # u}

\* create_custom_media arrives: a lot without its specifics is answered
\* with LotDoesNotMatchSpecifics; else commit_media_internal inserts the
\* metadata with the source Custom and a new identifier
create_custom_media(lot, has_specifics, genres, user_id) ==
    LET id == next_metadata_id(metadata)
        c == [DeleteCall("create_custom_media", user_id,
                         [media_id |-> id, collection_name |-> Custom],
                         "custom_collection_find", None, None)
                EXCEPT !.genres = genres]
    IN IF has_specifics
       THEN /\ \E identifier \in new_v4(metadata) :
                 metadata' =
                    metadata @@ (id :> MetadataModel(lot, "Custom",
                                                     identifier))
            /\ Arrives(after_genre(c))
            /\ UNCHANGED <<user, seen, seen_id_seq, after_media_seen,
                           job_storage_up, summary_tables, review,
                           review_id_seq, collection,
                           metadata_to_collection, collection_id_seq,
                           user_created, user_id_seq, register,
                           users_config, fitness_tables, user_to_metadata,
                           genre_tables>>
       ELSE /\ Arrives(Return(DeleteOutcome(
                                 c, "Ok", 0, "LotDoesNotMatchSpecifics")))
            /\ UNCHANGED <<user, yank_frame>>

CreateCustomMedia ==
    /\ CallsMade < MaxMediaCalls
    /\ \E user_id \in YankUserIds, has_specifics \in BOOLEAN,
          genres \in GenreLists :
         create_custom_media("Book", has_specifics, genres, user_id)

\* create_custom_media calls add_media_to_collection for the collection
\* Custom: the lookup of the collection, whose unwrap() panics when the
\* user has none; the call returns the media whatever the INSERT answers
CreateCustomMediaFindsCollection ==
    \E k \in DOMAIN calls :
      LET c == calls[k]
          found == collection_lookup(collection, c.user_id,
                                     c.input.collection_name)
      IN /\ c.pc = "custom_collection_find"
         /\ IF found = {}
            THEN Ends(k, Return(DeleteOutcome(c, "Panic", 0, "")))
            ELSE \E collect \in found :
                   Ends(k, Goto([c EXCEPT !.collect = Some(collect),
                                          !.pc = "membership_insert"]))
         /\ UNCHANGED <<user, yank_frame>>

\* user 1 may have the collection Custom
InitYank ==
    /\ seen = {}
    /\ seen_id_seq = 0
    /\ metadata = InitMetadata
    /\ after_media_seen = << >>
    /\ now = FirstNow
    /\ last = NoCall
    /\ job_storage_up = TRUE
    /\ summary = {}
    /\ summary_id_seq = 0
    /\ recalculate_user_summary = << >>
    /\ review = {}
    /\ review_id_seq = 0
    /\ collection \in {{}, {CollectionRow(1, 1, Custom)}}
    /\ metadata_to_collection = {}
    /\ collection_id_seq = Cardinality(collection)
    /\ user_created = << >>
    /\ RegisteredAndIdle
    /\ user_to_metadata = {}

NextYank ==
    \/ CreateUserYankIntegration
    \/ CreateUserYankIntegrationUpdates
    \/ DeleteUserYankIntegration
    \/ DeleteUserYankIntegrationUpdates
    \/ YankIntegrationsDataForUser
    \/ YankAudiobookshelfProgress
    \/ YankMediaExists
    \/ CommitMediaDetailsFromProvider
    \/ CommitMediaInternalInserts
    \/ AssociateGenreFinds
    \/ AssociateGenreInsertsGenre
    \/ AssociateGenreInserts
    \/ ProgressUpdateFindsPrevSeen
    \/ ProgressUpdateFindsIdentifier
    \/ ProgressUpdateUpdates
    \/ ProgressUpdateFindsMetadata
    \/ ProgressUpdateInserts
    \/ ProgressUpdateReadsMetadata
    \/ ProgressUpdatePushesJob

SpecYank == InitYank /\ [][NextYank]_vars

\* commit_media and create_custom_media as requests of their own
NextMedia ==
    \/ CommitMedia
    \/ CommitMediaDetailsFromProvider
    \/ CommitMediaInternalInserts
    \/ AssociateGenreFinds
    \/ AssociateGenreInsertsGenre
    \/ AssociateGenreInserts
    \/ CreateCustomMedia
    \/ CreateCustomMediaFindsCollection
    \/ AddMediaInserts
    \/ UpdateMedia
    \/ UpdateMediaSaves

SpecMedia == InitYank /\ [][NextMedia]_vars

----------------------------------------------------------------------------
(* The exercise library (fitness/exercise/resolver.rs):                     *)
(* deploy_update_exercise_library_job pushes one UpdateExerciseJob per      *)
(* exercise of the dataset, update_exercise is the execution of one job.    *)
(* The worker of the storage is declared outside this file: it takes the    *)
(* jobs in the order they were pushed, and MaxWorkers executions may be     *)
(* under way at a time.                                                     *)

MaxDeploys == 2   \* calls and executions begun before the last deploy
MaxWorkers == 1   \* executions of update_exercise under way at a time

GithubImage(stem, ext) == [stem |-> stem, ext |-> ext]

GithubExercise(identifier, name, images) ==
    [identifier |-> identifier, name |-> name, images |-> images]

\* what get_all_exercises_from_dataset returns
Dataset ==
    <<GithubExercise("Barbell_Squat", "Barbell Squat",
                     <<GithubImage("Barbell_Squat/0", Some("jpg")),
                       GithubImage("Barbell_Squat/1", None)>>),
      GithubExercise("Plank", "Plank",
                     <<GithubImage("Plank/0", Some("jpg"))>>)>>

\* slugify on the identifiers of the dataset: lower case, with a hyphen for
\* every run of characters that are not alphanumeric
slugify(identifier) ==
    CASE identifier = "Barbell_Squat" -> "barbell-squat"
      [] identifier = "Plank" -> "plank"

\* the extension of the image's path, "png" when it has none
extension_or_png(image) ==
    IF IsSome(image.ext) THEN Unwrap(image.ext) ELSE "png"

\* format!("fitness/exercises/{iden}/{idx}.{ext}"); idx counts from 0
image_key(ex, idx) ==
    [iden |-> slugify(ex.identifier), idx |-> idx,
     ext |-> extension_or_png(ex.images[idx + 1])]

\* the keys of the first n images, in order
RECURSIVE image_keys(_, _)
image_keys(ex, n) ==
    IF n = 0 THEN << >>
    ELSE Append(image_keys(ex, n - 1), image_key(ex, n - 1))

UpdateExerciseJob(ex, status) == [exercise |-> ex, status |-> status]

ExerciseModel(id, ex, images) ==
    [id |-> id, name |-> ex.name, identifier |-> ex.identifier,
     images |-> images]

\* Exercise::find().filter(Identifier.eq(&ex.identifier))
exercise_find(E, identifier) == {r \in E : r.identifier = identifier}

\* what a caller could have read of the library when its call arrived
ExerciseBefore ==
    [exercise |-> exercise, file_storage |-> file_storage]

\* an execution of update_exercise for the job at position job of the
\* storage: the index of the image it is at and the keys it has built; or a
\* call of deploy_update_exercise_library_job with the exercises it has
\* still to push and the number of jobs it has pushed
ExerciseCall(op, job, ex, pc) ==
    [op |-> op, job |-> job, ex |-> ex, pc |-> pc, idx |-> 0,
     images |-> << >>, exercises |-> << >>, job_ids |-> 0,
     alone |-> Idle, before |-> ExerciseBefore]

ExerciseOutcome(c, kind, id) ==
    [op |-> c.op, user_id |-> 0, input |-> NoInput, action |-> "none",
     replayed |-> FALSE, kind |-> kind, id |-> id, error |-> "",
     identifier |-> c.ex.identifier, job |-> c.job, alone |-> c.alone,
     before |-> c.before]

exercise_frame ==
    <<seen, seen_id_seq, metadata, after_media_seen, job_storage_up,
      summary_tables, review, review_id_seq, collection,
      metadata_to_collection, collection_id_seq, user_created,
      account_tables, user_to_metadata, genre_tables>>

\* the job that is executed next: the first one that is pending
next_pending(q) ==
    {k \in DOMAIN q : /\ q[k].status = "Pending"
                      /\ \A j \in 1..(k - 1) : q[j].status # "Pending"}

\* the executions of update_exercise under way
ExecutionsUnderWay ==
    Cardinality({k \in DOMAIN calls : calls[k].op = "update_exercise"})

\* the storage once the execution c has returned kind: a job that failed
\* is not retried
job_returned(q, c, kind) ==
    [q EXCEPT ![c.job].status = IF kind = "Ok" THEN "Done" ELSE "Failed"]

\* the statement after an image has been uploaded, or after the lookup
\* found no row: the download of the next image, or the INSERT
after_image(c) ==
    IF c.idx < Len(c.ex.images)
    THEN [c EXCEPT !.pc = "image_get"]
    ELSE [c EXCEPT !.pc = "exercise_insert"]

\* the worker takes the next job and update_exercise runs its lookup,
\* whose error is returned: with a row of that identifier it returns
UpdateExerciseJobExecuted ==
    /\ ExecutionsUnderWay < MaxWorkers
    /\ \E k \in next_pending(update_exercise), answered \in BOOLEAN :
         LET ex == update_exercise[k].exercise
             c == ExerciseCall("update_exercise", k, ex, "exercise_find")
         IN IF ~answered
            THEN /\ Arrives(Return(ExerciseOutcome(c, "Err", 0)))
                 /\ update_exercise' =
                      job_returned(update_exercise, c, "Err")
            ELSE IF exercise_find(exercise, ex.identifier) # {}
            THEN /\ Arrives(Return(ExerciseOutcome(c, "Ok", 0)))
                 /\ update_exercise' = job_returned(update_exercise, c, "Ok")
            ELSE /\ Arrives(Goto(after_image(c)))
                 /\ update_exercise' =
                      [update_exercise EXCEPT ![k].status = "Running"]
    /\ UNCHANGED <<exercise, exercise_id_seq, file_storage, exercise_frame>>

\* surf::get(image): the download and the read of its body, whose unwrap()
\* panic when the request fails
UpdateExerciseGetsImage ==
    \E k \in DOMAIN calls :
      LET c == calls[k]
      IN /\ c.pc = "image_get"
         /\ \E answered \in BOOLEAN :
              IF answered
              THEN /\ Ends(k, Goto([c EXCEPT
                                      !.images =
                                         Append(@, image_key(c.ex, c.idx)),
                                      !.pc = "upload_file"]))
                   /\ UNCHANGED update_exercise
              ELSE /\ Ends(k, Return(ExerciseOutcome(c, "Panic", 0)))
                   /\ update_exercise' =
                        job_returned(update_exercise, c, "Panic")
         /\ UNCHANGED <<exercise, exercise_id_seq, file_storage,
                        exercise_frame>>

\* file_storage.upload_file(): the file is stored under the key, or the
\* error of the storage is returned
UpdateExerciseUploadsFile ==
    \E k \in DOMAIN calls :
      LET c == calls[k]
      IN /\ c.pc = "upload_file"
         /\ \E stored \in BOOLEAN :
              IF stored
              THEN /\ file_storage' =
                        Append(file_storage, image_key(c.ex, c.idx))
                   /\ Ends(k, Goto(after_image([c EXCEPT !.idx = @ + 1])))
                   /\ UNCHANGED update_exercise
              ELSE /\ Ends(k, Return(ExerciseOutcome(c, "Err", 0)))
                   /\ update_exercise' =
                        job_returned(update_exercise, c, "Err")
                   /\ UNCHANGED file_storage
         /\ UNCHANGED <<exercise, exercise_id_seq, exercise_frame>>

\* db_exercise.insert(), whose error is returned
UpdateExerciseInserts ==
    \E k \in DOMAIN calls :
      LET c == calls[k]
          id == exercise_id_seq + 1
      IN /\ c.pc = "exercise_insert"
         /\ \E inserted \in BOOLEAN :
              IF inserted
              THEN /\ exercise' =
                        exercise \cup {ExerciseModel(id, c.ex, c.images)}
                   /\ exercise_id_seq' = id
                   /\ update_exercise' =
                        job_returned(update_exercise, c, "Ok")
                   /\ Ends(k, Return(ExerciseOutcome(c, "Ok", id)))
              ELSE /\ UNCHANGED <<exercise, exercise_id_seq>>
                   /\ update_exercise' =
                        job_returned(update_exercise, c, "Err")
                   /\ Ends(k, Return(ExerciseOutcome(c, "Err", 0)))
         /\ UNCHANGED <<file_storage, exercise_frame>>

ErrFileStorage == "File storage must be enabled for this feature."

\* no exercise: what a call on the library as a whole is about
NoExercise == GithubExercise("", "", << >>)

\* deploy_update_exercise_library_job arrives: file_storage.is_enabled(),
\* and the error returned when the file storage answers that it is not
DeployUpdateExerciseLibraryJob ==
    /\ CallsMade < MaxDeploys
    /\ LET c == ExerciseCall("deploy_update_exercise_library_job", 0,
                             NoExercise, "get_all_exercises")
       IN \E is_enabled \in BOOLEAN :
            Arrives(IF is_enabled THEN Goto(c)
                    ELSE Return([ExerciseOutcome(c, "Err", 0) EXCEPT
                                   !.error = ErrFileStorage]))
    /\ UNCHANGED <<fitness_tables, exercise_frame>>

\* get_all_exercises_from_dataset: the dataset, or the panic of the
\* unwrap() on a request that failed or a body that is no dataset
DeployGetsAllExercises ==
    \E k \in DOMAIN calls :
      LET c == calls[k]
      IN /\ c.pc = "get_all_exercises"
         /\ \E answered \in BOOLEAN :
              Ends(k, IF answered
                      THEN Goto([c EXCEPT !.exercises = Dataset,
                                          !.pc = "update_exercise_push"])
                      ELSE Return(ExerciseOutcome(c, "Panic", 0)))
         /\ UNCHANGED <<fitness_tables, exercise_frame>>

\* storage.push(UpdateExerciseJob) for the next exercise; after the last
\* one the number of jobs is returned, and the error of a push at once
DeployPushesJob ==
    \E k \in DOMAIN calls :
      LET c == calls[k]
          pushed == [c EXCEPT !.exercises = Tail(@), !.job_ids = @ + 1]
      IN /\ c.pc = "update_exercise_push"
         /\ IF job_storage_up
            THEN /\ update_exercise' =
                      Append(update_exercise,
                             UpdateExerciseJob(Head(c.exercises), "Pending"))
                 /\ Ends(k, IF pushed.exercises = << >>
                            THEN Return(ExerciseOutcome(c, "Ok",
                                                        pushed.job_ids))
                            ELSE Goto(pushed))
            ELSE /\ UNCHANGED update_exercise
                 /\ Ends(k, Return(ExerciseOutcome(c, "Err", 0)))
         /\ UNCHANGED <<exercise, exercise_id_seq, file_storage,
                        exercise_frame>>

NextExercise ==
    \/ DeployUpdateExerciseLibraryJob
    \/ DeployGetsAllExercises
    \/ DeployPushesJob
    \/ UpdateExerciseJobExecuted
    \/ UpdateExerciseGetsImage
    \/ UpdateExerciseUploadsFile
    \/ UpdateExerciseInserts

SpecExercise == Init /\ [][NextExercise]_vars

----------------------------------------------------------------------------
(* merge_metadata served while progress_update requests arrive: the merge   *)
(* is a sequence of statements with no transaction around them, so a        *)
(* statement of a request may run between two of them.                      *)

MaxRaceCalls == 3   \* calls made in one behaviour, the merge among them

RaceProgressChoices == {Some(30), Some(100)}
RaceMetadataIds == {1, 3}
RaceUserIds == {1}

\* a merge_metadata call is under way
MergeUnderWay == \E k \in DOMAIN calls : calls[k].op = "merge_metadata"

\* a request that arrives before, between or after the statements of the
\* merge
ProgressUpdateRace ==
    /\ CallsMade < MaxRaceCalls
    /\ \E user_id \in RaceUserIds, metadata_id \in RaceMetadataIds,
          progress \in RaceProgressChoices :
         progress_update(
             MakeInput(metadata_id, progress,
                       IF progress = Some(100) THEN Some(Today) ELSE None,
                       ActiveLocator(InitMetadata[metadata_id].lot), None),
             user_id)

\* a merge of which every statement succeeds, made while no other merge is
\* under way and both metadata rows are stored
MergeMetadataRace ==
    /\ ~MergeUnderWay
    /\ RaceMetadataIds \subseteq DOMAIN metadata
    /\ CallsMade < MaxRaceCalls
    /\ \E merge_from \in RaceMetadataIds, merge_into \in RaceMetadataIds :
         /\ merge_from # merge_into
         /\ merge_metadata(merge_from, merge_into, FALSE)

NextMergeRace ==
    \/ ProgressUpdateRace
    \/ ProgressUpdateFindsIdentifier
    \/ ProgressUpdateUpdates
    \/ ProgressUpdateFindsMetadata
    \/ ProgressUpdateInserts
    \/ ProgressUpdateReadsMetadata
    \/ ProgressUpdatePushesJob
    \/ MergeMetadataRace
    \/ MergeMetadataInsertsSeen
    \/ MergeMetadataDeletesSeen
    \/ MergeMetadataFindsReviews
    \/ MergeMetadataDeletes

SpecMergeRace == Init /\ [][NextMergeRace]_vars

----------------------------------------------------------------------------
(* Vocabulary of the properties, stated on the tables themselves.  A       *)
(* property of one call is stated on a call that ran with no other call    *)
(* under way: `last` is what it returned, last.before the tables as they   *)
(* were when it arrived, and the tables are as it left them.               *)

\* a call of the handler has returned, no other call was under way while it
\* ran and none has arrived since
ReturnedAlone(op) == Idle /\ last.op = op /\ last.alone

\* the instant and the day of the call that has just returned
CallTime == now - 1
CallDay == DateOf(CallTime)

\* the records of (user, metadata) that are neither complete nor dropped
ActiveRecords(S, u, m) ==
    {r \in S : r.user_id = u /\ r.metadata_id = m
               /\ r.progress < 100 /\ ~r.dropped}

\* some stored record already carries the identifier
IdentifierStored(S, identifier) ==
    identifier # None /\ \E r \in S : r.identifier = identifier

\* the locator fields that the lot requires are all given
LocatorsGiven(lot, i) ==
    /\ lot = "Show" => i.show_season_number # None
                       /\ i.show_episode_number # None
    /\ lot = "Podcast" => i.podcast_episode_number # None

\* the locator the lot requires, as it is to be stored
LocatorOf(lot, i) ==
    CASE lot = "Show" ->
           Some([tag |-> "Show", season |-> Unwrap(i.show_season_number),
                 episode |-> Unwrap(i.show_episode_number)])
      [] lot = "Podcast" ->
           Some([tag |-> "Podcast",
                 episode |-> Unwrap(i.podcast_episode_number)])
      [] OTHER -> None

\* the request is one that the state machine answers by creating a record
IsCreateRequest(S, u, i, today) ==
    /\ i.progress # None
    /\ IF Unwrap(i.progress) = 100
       THEN i.date # Some(today) \/ ActiveRecords(S, u, i.metadata_id) = {}
       ELSE ActiveRecords(S, u, i.metadata_id) = {}

\* the call added exactly the record r and changed no other record
CreatedOne(r) ==
    r \notin last.before.seen /\ seen = last.before.seen \cup {r}

\* the lot of the metadata the call was about
CallLot == last.before.metadata[last.input.metadata_id].lot

\* the active records of the caller's pair when the call arrived
ActiveBefore ==
    ActiveRecords(last.before.seen, last.user_id, last.input.metadata_id)

\* a call that ran alone on an identifier no record carried
ServedAlone ==
    /\ ReturnedAlone("progress_update")
    /\ ~IdentifierStored(last.before.seen, last.input.identifier)

----------------------------------------------------------------------------
(* C1: two successive progress_update calls with the same non-empty        *)
(* identifier, by the same user for the same metadata, return the same id, *)
(* and the second call leaves the number of seen records unchanged.        *)
C1_SameIdentifierSameId ==
    [][(/\ now' = now + 1
        /\ last'.op = "progress_update" /\ last'.alone
        /\ last.op = "progress_update" /\ last.kind = "Ok"
        /\ last.input.identifier # None
        /\ last'.input.identifier = last.input.identifier
        /\ last'.user_id = last.user_id
        /\ last'.input.metadata_id = last.input.metadata_id)
       => (/\ last'.kind = "Ok"
           /\ last'.id = last.id
           /\ Cardinality(seen') = Cardinality(last'.before.seen))]_vars

(* C2: a progress_update whose identifier is already carried by a stored   *)
(* seen record is a pure replay: the seen table (every field of every      *)
(* record) and the job storage are unchanged, whatever the input carries.  *)
C2_ReplayChangesNothing ==
    (/\ ReturnedAlone("progress_update")
     /\ IdentifierStored(last.before.seen, last.input.identifier))
    => (/\ seen = last.before.seen
        /\ seen_id_seq = last.before.seen_id_seq
        /\ after_media_seen = last.before.after_media_seen
        /\ last.kind = "Ok"
        /\ last.replayed)

\* a replay whose input asks for a mutation the stored record does not show
C2_Witness ==
    /\ ReturnedAlone("progress_update") /\ last.kind = "Ok"
    /\ last.replayed
    /\ last.input.progress = Some(60)
    /\ \E r \in seen :
         /\ r.identifier = last.input.identifier
         /\ r.progress = 100
         /\ r.last_updated_on < CallTime
         /\ last.id = r.metadata_id
    /\ \E a \in ActiveBefore : a \in seen

(* C3: a progress p in 1..99 submitted for a (user, metadata) pair without *)
(* active record is JustStarted and creates exactly one record with        *)
(* progress p, started_on today and finished_on None.                      *)
C3_JustStartedStoresProgress ==
    (/\ ServedAlone
     /\ LocatorsGiven(CallLot, last.input)
     /\ last.input.progress # None
     /\ Unwrap(last.input.progress) \in 1..99
     /\ ActiveBefore = {})
    => (/\ last.action = "JustStarted"
        /\ \E r \in seen :
             /\ CreatedOne(r)
             /\ r.progress = Unwrap(last.input.progress)
             /\ r.started_on = Some(CallDay)
             /\ r.finished_on = None)

(* C4: progress 100 dated today, submitted for a (user, metadata) pair     *)
(* without active record, is Now and creates exactly one record with       *)
(* progress 100 and finished_on today.                                     *)
C4_NowCreatesCompleted ==
    (/\ ServedAlone
     /\ LocatorsGiven(CallLot, last.input)
     /\ last.input.progress = Some(100)
     /\ last.input.date = Some(CallDay)
     /\ ActiveBefore = {})
    => (/\ last.action = "Now"
        /\ last.kind = "Ok"
        /\ \E r \in seen :
             /\ CreatedOne(r)
             /\ r.id = last.id
             /\ r.user_id = last.user_id
             /\ r.metadata_id = last.input.metadata_id
             /\ r.progress = 100
             /\ r.finished_on = Some(CallDay))

\* a Now request has been served and its record is in the table
C4_Witness ==
    /\ ReturnedAlone("progress_update")
    /\ last.action = "Now" /\ last.kind = "Ok"
    /\ \E r \in seen \ last.before.seen :
         r.id = last.id /\ r.progress = 100 /\ r.finished_on = last.input.date

(* C5: progress 100 with a date other than today is InThePast whether or   *)
(* not an active record exists: one completed record is created and every  *)
(* existing record, the active one included, is left as it was.            *)
C5_InThePastKeepsActive ==
    (/\ ServedAlone
     /\ LocatorsGiven(CallLot, last.input)
     /\ last.input.progress = Some(100)
     /\ last.input.date # None
     /\ last.input.date # Some(CallDay))
    => (/\ last.action = "InThePast"
        /\ last.kind = "Ok"
        /\ \E r \in seen :
             /\ CreatedOne(r)
             /\ r.id = last.id
             /\ r.user_id = last.user_id
             /\ r.metadata_id = last.input.metadata_id
             /\ r.progress = 100
        /\ ActiveBefore \subseteq seen)

\* an InThePast request has been served while an active record existed
C5_Witness ==
    /\ ReturnedAlone("progress_update")
    /\ last.action = "InThePast" /\ last.kind = "Ok"
    /\ last.input.date # None
    /\ \E a \in ActiveBefore : a \in seen /\ a.id # last.id
    /\ \E r \in seen \ last.before.seen : r.id = last.id /\ r.progress = 100

(* C6: a progress p < 100 submitted while an active record exists is an    *)
(* Update: no record is created, the most recently updated active record   *)
(* gets progress p and a refreshed last_updated_on, and its finished_on    *)
(* is left as it was, so that None stays None; nothing else changes.       *)
C6_UpdateMutatesActive ==
    (/\ ServedAlone
     /\ last.input.progress # None
     /\ Unwrap(last.input.progress) < 100
     /\ ActiveBefore # {})
    => (/\ last.action = "Update"
        /\ last.kind = "Ok"
        /\ Cardinality(seen) = Cardinality(last.before.seen)
        /\ \E r \in ActiveBefore :
             /\ r.id = last.id
             /\ seen = (last.before.seen \ {r}) \cup
                  {[r EXCEPT !.progress = Unwrap(last.input.progress),
                             !.last_updated_on = CallTime]}
             /\ r.last_updated_on < CallTime)

\* an Update to 60 has been served: the record shows 60 and is unfinished
C6_Witness ==
    /\ ReturnedAlone("progress_update")
    /\ last.action = "Update" /\ last.kind = "Ok"
    /\ last.input.progress = Some(60)
    /\ \E r \in seen :
         /\ r.id = last.id /\ r.progress = 60 /\ r.finished_on = None
         /\ r.last_updated_on = CallTime
         /\ \E b \in ActiveBefore : b.id = r.id /\ b.progress # 60

(* C7: a Drop (progress = None) for a (user, metadata) pair without active *)
(* record fails with the error of the Drop branch and modifies no seen     *)
(* record, also when completed records exist for the pair.                 *)
C7_DropWithoutActiveFails ==
    (/\ ServedAlone
     /\ last.input.progress = None
     /\ ActiveBefore = {})
    => (/\ last.kind = "Err"
        /\ seen = last.before.seen)

(* C8: every seen record has progress in 0..100 in every state, and a      *)
(* submission with a progress outside 0..100 fails with an error and       *)
(* neither creates nor modifies a record.                                  *)
C8_ProgressInRange ==
    /\ \A r \in seen : r.progress \in 0..100
    /\ (/\ ServedAlone
        /\ LocatorsGiven(CallLot, last.input)
        /\ last.input.progress # None
        /\ Unwrap(last.input.progress) \notin 0..100)
       => (last.kind = "Err" /\ seen = last.before.seen)

(* C9: in every reachable state every seen record has finished_on set if   *)
(* and only if its progress is 100.                                        *)
C9_FinishedIffComplete ==
    \A r \in seen : (r.finished_on # None) <=> (r.progress = 100)

(* C10: a create request (Now, InThePast, JustStarted) for a Show without  *)
(* season or episode, or for a Podcast without episode, fails with an      *)
(* error returned to the caller, creates no record and enqueues nothing;   *)
(* with the locators present they are stored as extra_information.         *)
C10_MissingLocatorIsAnError ==
    (/\ ServedAlone
     /\ IsCreateRequest(last.before.seen, last.user_id, last.input, CallDay))
    => IF LocatorsGiven(CallLot, last.input)
       THEN \E r \in seen :
              /\ CreatedOne(r)
              /\ r.extra_information = LocatorOf(CallLot, last.input)
       ELSE /\ last.kind = "Err"
            /\ seen = last.before.seen
            /\ after_media_seen = last.before.after_media_seen

----------------------------------------------------------------------------
(* C11: a progress_update that succeeds without being a replay has written *)
(* exactly one record and, when the job storage accepts the push, has      *)
(* appended exactly one AfterMediaSeenJob carrying that record as written  *)
(* and the lot of its metadata; when the storage refuses the push the call *)
(* still succeeds and the record stays written; a replayed or failed call  *)
(* leaves the job storage unchanged.                                       *)
C11_OneJobPerWrite ==
    ReturnedAlone("progress_update") =>
      /\ (last.kind = "Ok" /\ ~last.replayed)
           => \E r \in seen \ last.before.seen :
                /\ seen \ last.before.seen = {r}
                /\ r.id = last.id
                /\ after_media_seen =
                     IF last.pushed
                     THEN Append(last.before.after_media_seen,
                                 [seen |-> r, metadata_lot |-> CallLot])
                     ELSE last.before.after_media_seen
      /\ (last.kind # "Ok" \/ last.replayed)
           => after_media_seen = last.before.after_media_seen
      /\ (/\ ~IdentifierStored(last.before.seen, last.input.identifier)
          /\ last.input.progress # None
          /\ LocatorsGiven(CallLot, last.input))
           => last.kind = "Ok" /\ seen # last.before.seen

\* two calls have written a record each: one push was accepted, the other
\* one refused, and the call whose push was refused has returned Ok
C11_Witness ==
    /\ ReturnedAlone("progress_update")
    /\ last.kind = "Ok" /\ ~last.replayed /\ ~last.pushed
    /\ Cardinality(seen) = 2
    /\ Len(after_media_seen) = 1

----------------------------------------------------------------------------
\* the records that the call found not dropped and left dropped
NewlyDropped ==
    {r \in last.before.seen :
       ~r.dropped /\ \E q \in seen : q.id = r.id /\ q.dropped}

(* C24: a successful Drop marks as dropped the active record only, that is *)
(* the most recently updated record of (user, metadata) with progress      *)
(* below 100 and not dropped; it never marks a record whose progress is    *)
(* 100, even when a completed record was updated after the active one.     *)
C24_DropMarksActiveOnly ==
    (/\ ReturnedAlone("progress_update")
     /\ last.action = "Drop"
     /\ last.kind = "Ok")
    => (/\ NewlyDropped # {}
        /\ NewlyDropped \subseteq order_by_desc_first(ActiveBefore)
        /\ \A r \in NewlyDropped : r.progress < 100)

\* a completion dated today was submitted while the pair had an active record
CompletesToday ==
    /\ ServedAlone
    /\ last.input.progress = Some(100)
    /\ last.input.date = Some(CallDay)
    /\ ActiveBefore # {}

\* the call completed the record r in place and changed no other record
CompletedInPlace(r) ==
    /\ seen = (last.before.seen \ {r}) \cup
                {[r EXCEPT !.progress = 100,
                           !.finished_on = Some(CallDay),
                           !.last_updated_on = CallTime]}
    /\ seen_id_seq = last.before.seen_id_seq

\* the active records of the caller's pair now
ActiveAfter == ActiveRecords(seen, last.user_id, last.input.metadata_id)

(* C25 as stated: progress 100 dated today while an active record exists   *)
(* is an Update: no record is created, the active record ends with         *)
(* progress 100 and finished_on today, and the pair has no active record   *)
(* afterwards.                                                             *)
C25_UpdateCompletes ==
    CompletesToday
    => (/\ last.action = "Update"
        /\ last.kind = "Ok"
        /\ \E r \in order_by_desc_first(ActiveBefore) : CompletedInPlace(r)
        /\ ActiveAfter = {})

(* C25 amended: progress 100 dated today while an active record exists is  *)
(* an Update: no record is created and the most recently updated active    *)
(* record ends with progress 100 and finished_on today; the other active   *)
(* records of the pair, which requests that overlapped or a merge may have *)
(* brought, stay active.                                                   *)
C25_UpdateCompletesMostRecent ==
    CompletesToday
    => (/\ last.action = "Update"
        /\ last.kind = "Ok"
        /\ \E r \in order_by_desc_first(ActiveBefore) :
             /\ CompletedInPlace(r)
             /\ ActiveAfter = ActiveBefore \ {r})

\* an Update has completed a record today and its pair has no active record
C25_Witness ==
    /\ ReturnedAlone("progress_update")
    /\ last.action = "Update" /\ last.kind = "Ok"
    /\ last.input.progress = Some(100)
    /\ \E r \in seen :
         /\ r.id = last.id
         /\ r.progress = 100
         /\ IsSome(r.started_on)
         /\ r.finished_on = last.input.date
    /\ ActiveBefore # {}
    /\ ActiveAfter = {}

(* C26: a record created by the Now or the InThePast action has progress   *)
(* 100, started_on None and finished_on today, the day of the call, both   *)
(* when the submitted date is absent and when it is another day.           *)
C26_CreatedFinishedToday ==
    (/\ ReturnedAlone("progress_update")
     /\ last.kind = "Ok"
     /\ ~last.replayed
     /\ last.action \in {"Now", "InThePast"})
    => \E r \in seen :
         /\ CreatedOne(r)
         /\ r.id = last.id
         /\ r.progress = 100
         /\ r.started_on = None
         /\ r.finished_on = Some(CallDay)

(* C27: a record created by the JustStarted action is stored with progress *)
(* 0 whatever progress below 100 was submitted, with started_on today and  *)
(* finished_on None.                                                       *)
C27_JustStartedStoresZero ==
    (/\ ReturnedAlone("progress_update")
     /\ last.kind = "Ok"
     /\ ~last.replayed
     /\ last.action = "JustStarted")
    => (/\ Unwrap(last.input.progress) < 100
        /\ \E r \in seen :
             /\ CreatedOne(r)
             /\ r.id = last.id
             /\ r.progress = 0
             /\ r.started_on = Some(CallDay)
             /\ r.finished_on = None)

\* a record started with a positive progress submitted is stored with 0
C27_Witness ==
    /\ ReturnedAlone("progress_update")
    /\ last.action = "JustStarted" /\ last.kind = "Ok"
    /\ Unwrap(last.input.progress) > 0
    /\ \E r \in seen \ last.before.seen :
         /\ r.id = last.id
         /\ r.progress = 0
         /\ r.started_on = Some(DateOf(r.last_updated_on))
         /\ r.finished_on = None

(* C28: when several records of one (user, metadata) pair are neither      *)
(* dropped nor complete, an Update changes only the one with the greatest  *)
(* last_updated_on; the other records of the pair and the records of every *)
(* other pair are left as they were.                                       *)
C28_UpdateMutatesMostRecentOnly ==
    (/\ ReturnedAlone("progress_update")
     /\ last.kind = "Ok"
     /\ ~last.replayed
     /\ last.action = "Update"
     /\ Cardinality(ActiveBefore) > 1)
    => \E r \in ActiveBefore :
         /\ \A q \in ActiveBefore : q.last_updated_on <= r.last_updated_on
         /\ r \notin seen
         /\ \E w \in seen :
              /\ w.id = r.id
              /\ seen = (last.before.seen \ {r}) \cup {w}

\* an Update has been served for a pair that holds another started record,
\* inserted later than the one the Update wrote and last updated before it
C28_Witness ==
    /\ ReturnedAlone("progress_update")
    /\ last.action = "Update" /\ last.kind = "Ok"
    /\ \E w \in seen, other \in seen :
         /\ w.id = last.id
         /\ other.id # w.id
         /\ other \in ActiveBefore
         /\ other \in ActiveAfter
         /\ other.last_updated_on < w.last_updated_on
         /\ other.id > w.id

----------------------------------------------------------------------------
\* the rows of the users other than u are as they were when the call arrived
OthersRowsUntouched(u) ==
    \A r \in last.before.seen \cup seen :
       r.user_id # u => (r \in last.before.seen /\ r \in seen)

\* a replayed call returns the metadata of a record of the caller
ReplayServedFromOwn ==
    \E r \in last.before.seen : /\ r.user_id = last.user_id
                                /\ r.identifier = last.input.identifier
                                /\ last.id = r.metadata_id

(* C37: a progress_update call by user U, whatever its action and also     *)
(* when it replays an identifier, changes no seen record of another user,  *)
(* and the id it returns is determined by U's own records: a replay        *)
(* returns the metadata of one of U's records.                             *)
C37_CallsOfOthersDoNotInterfere ==
    ReturnedAlone("progress_update") =>
      /\ OthersRowsUntouched(last.user_id)
      /\ (last.kind = "Ok" /\ last.replayed) => ReplayServedFromOwn

----------------------------------------------------------------------------
(* Vocabulary of the summary properties *)

SummaryRowsOf(rows, u) == {s \in rows : s.user_id = u}
PendingJobsOf(q, u) == Cardinality({k \in DOMAIN q : q[k].user_id = u})

\* the call c is on its way to a summary row of u: a request that has
\* deleted the rows of u and has its job to push, a job of u that the
\* worker is executing, or regenerate_user_summaries past the cleanup of u
ProducesFor(c, u) ==
    \/ c.op = "regenerate_user_summary" /\ c.user_id = u
    \/ c.op = "recalculate_user_summary_job" /\ c.user_id = u
    \/ /\ c.op = "regenerate_user_summaries"
       /\ c.pc \in {"summary_stream", "summary_insert"}
       /\ Head(c.users) = u

ProducersOf(cs, u) ==
    Cardinality({k \in DOMAIN cs : ProducesFor(cs[k], u)})

\* the summary rows of u, those under way and those a waiting job stands for
SummaryLoad(rows, q, cs, u) ==
    Cardinality(SummaryRowsOf(rows, u)) + PendingJobsOf(q, u)
      + ProducersOf(cs, u)

\* the step starts a recomputation of the summary of u: a
\* regenerate_user_summary request of u arrives, or regenerate_user_summaries
\* comes to u
StartsRecomputation(u) ==
    \/ /\ Len(calls') = Len(calls) + 1
       /\ calls'[Len(calls')].op = "regenerate_user_summary"
       /\ calls'[Len(calls')].user_id = u
    \/ \E k \in DOMAIN calls :
         /\ calls[k].pc = "summary_cleanup"
         /\ Head(calls[k].users) = u
         /\ Len(calls') = Len(calls)
         /\ calls'[k].pc = "summary_stream"

\* the step pushes a job of u without a cleanup
DeploysAlone(u) ==
    /\ now' = now + 1
    /\ last'.op = "deploy_recalculate_summary_job"
    /\ last'.user_id = u

(* C12: as long as every recomputation of a user's summary goes through a  *)
(* cleanup and none is started while another one of that user is under way *)
(* (a waiting job, a job being executed, a request between its cleanup and *)
(* its push), the user's summary rows and the recomputations under way     *)
(* number at most one together after every step; so the user has at most   *)
(* one summary row once each recomputation has completed: the prior rows   *)
(* are deleted before the new one is inserted.                             *)
C12_AtMostOneSummaryRow ==
    [][\A u \in UserIds :
         (/\ SummaryLoad(summary, recalculate_user_summary, calls, u) <= 1
          /\ StartsRecomputation(u)
               => /\ PendingJobsOf(recalculate_user_summary, u) = 0
                  /\ ProducersOf(calls, u) = 0
          /\ ~DeploysAlone(u))
         => SummaryLoad(summary', recalculate_user_summary', calls', u)
              <= 1]_vars

\* a job has written a row for user 1 in the place of the row an earlier
\* recomputation had left, next to the row of user 2, which is still that
\* of the earlier recomputation
C12_Witness ==
    /\ Idle
    /\ last.op = "recalculate_user_summary_job" /\ last.kind = "Ok"
    /\ last.user_id = 1
    /\ recalculate_user_summary = << >>
    /\ \E s \in summary : SummaryRowsOf(summary, 1) = {s} /\ s.id = 3
    /\ \E t \in summary : SummaryRowsOf(summary, 2) = {t} /\ t.id = 2

\* the completed rows of a user, and those of one lot among them
CompletedOf(u) == {r \in seen : r.user_id = u /\ r.progress = 100}
CompletedOfLot(u, lot) ==
    {r \in CompletedOf(u) : MediaSpecifics[r.metadata_id].tag = lot}

\* the (season number, episode number) pairs a show declares, and the
\* episode numbers a podcast declares
DeclaredShowEpisodes(m) ==
    LET seasons == MediaSpecifics[m].seasons
    IN UNION {{<<seasons[i].season_number,
                 seasons[i].episodes[j].episode_number>> :
                   j \in DOMAIN seasons[i].episodes} :
                i \in DOMAIN seasons}

DeclaredPodcastEpisodes(m) ==
    LET episodes == MediaSpecifics[m].episodes
    IN {episodes[k].number : k \in DOMAIN episodes}

\* the row's locator names an episode that its metadata declares
MatchesDeclared(r) ==
    /\ r.extra_information # None
    /\ LET l == Unwrap(r.extra_information)
           item == MediaSpecifics[r.metadata_id]
       IN /\ l.tag = item.tag
          /\ IF item.tag = "Show"
             THEN <<l.season, l.episode>> \in DeclaredShowEpisodes(r.metadata_id)
             ELSE l.episode \in DeclaredPodcastEpisodes(r.metadata_id)

(* C13: in every summary row, shows.watched is the number of distinct      *)
(* show metadata ids among the user's completed rows and                   *)
(* shows.watched_episodes is the number of the user's completed Show rows  *)
(* whose locator names a declared episode, one per row; so k rows matching *)
(* k distinct episodes of one show give watched_episodes = k, watched = 1. *)
C13_ShowsWatched ==
    \A s \in summary :
      LET shows == CompletedOfLot(s.user_id, "Show")
      IN /\ s.data.shows.watched =
              Cardinality({r.metadata_id : r \in shows})
         /\ s.data.shows.watched_episodes =
              Cardinality({r \in shows : MatchesDeclared(r)})

\* two completed rows of the two episodes of season 1 of show 1
C13_Witness ==
    \E s \in summary :
      /\ s.data.shows.watched_episodes = 2
      /\ s.data.shows.watched = 1
      /\ \A r \in CompletedOf(s.user_id) :
           r.metadata_id = 1 /\ Unwrap(r.extra_information).season = 1

(* C14: a completed Show or Podcast row whose locator names no declared    *)
(* episode, or that has no locator, adds nothing to any counter of the     *)
(* summary (the summary is the one computed without the row), and the      *)
(* recomputation returns without error.                                    *)
C14_UnmatchedContributesNothing ==
    /\ last.op = "regenerate_user_summaries" => last.kind = "Ok"
    /\ \A s \in summary :
         \A r \in CompletedOfLot(s.user_id, "Show")
                    \cup CompletedOfLot(s.user_id, "Podcast") :
           ~MatchesDeclared(r)
             => s.data = calculate_user_summary(seen \ {r}, s.user_id).data

\* one addend per row: the optional value of the row's metadata
OptionalOf(r) ==
    LET item == MediaSpecifics[r.metadata_id]
    IN CASE item.tag \in {"AudioBook", "Movie"} -> item.runtime
         [] item.tag = "Book" -> item.pages
         [] item.tag = "Anime" -> item.episodes
         [] item.tag = "Manga" -> item.chapters
         [] OTHER -> None

RECURSIVE SumOfOptionals(_)
SumOfOptionals(rows) ==
    IF rows = {}
    THEN 0
    ELSE LET r == CHOOSE x \in rows : TRUE
         IN (IF OptionalOf(r) = None THEN 0 ELSE Unwrap(OptionalOf(r)))
            + SumOfOptionals(rows \ {r})

(* C15: in every summary row, the count of each of the lots AudioBook,     *)
(* Book, Movie, VideoGame, Anime and Manga is the number of the user's     *)
(* completed rows of that lot (n rows of one metadata count n), and the    *)
(* lot's total is the sum over those rows of the metadata's optional       *)
(* runtime, pages, episodes or chapters, a missing value adding 0.         *)
C15_CountPerRecord ==
    \A s \in summary :
      LET n(lot) == Cardinality(CompletedOfLot(s.user_id, lot))
          total(lot) == SumOfOptionals(CompletedOfLot(s.user_id, lot))
      IN /\ s.data.audio_books.played = n("AudioBook")
         /\ s.data.audio_books.runtime = total("AudioBook")
         /\ s.data.books.read = n("Book")
         /\ s.data.books.pages = total("Book")
         /\ s.data.movies.watched = n("Movie")
         /\ s.data.movies.runtime = total("Movie")
         /\ s.data.video_games.played = n("VideoGame")
         /\ s.data.anime.watched = n("Anime")
         /\ s.data.anime.episodes = total("Anime")
         /\ s.data.manga.read = n("Manga")
         /\ s.data.manga.chapters = total("Manga")

\* two completed rows of book 3 (4 pages): read = 2, pages = 8
C15_Witness ==
    \E s \in summary :
      /\ s.data.books.read = 2
      /\ s.data.books.pages = 8
      /\ \A r \in CompletedOf(s.user_id) : r.metadata_id = 3

\* the runtime of the declared episode that a matching Podcast row names
RECURSIVE SumOfPodcastRuntimes(_)
SumOfPodcastRuntimes(rows) ==
    IF rows = {}
    THEN 0
    ELSE LET r == CHOOSE x \in rows : TRUE
             episodes == MediaSpecifics[r.metadata_id].episodes
             k == CHOOSE k \in DOMAIN episodes :
                    episodes[k].number = Unwrap(r.extra_information).episode
         IN (IF episodes[k].runtime = None THEN 0
             ELSE Unwrap(episodes[k].runtime))
            + SumOfPodcastRuntimes(rows \ {r})

(* C16: in every summary row, podcasts.played is the number of distinct    *)
(* podcast metadata ids among the user's completed rows, played_episodes   *)
(* is the number of distinct declared episodes that those rows name, and   *)
(* podcasts.runtime is the sum, over the rows naming a declared episode,   *)
(* of that episode's runtime (two rows of one episode add it twice).       *)
C16_PodcastsPlayed ==
    \A s \in summary :
      LET podcasts == CompletedOfLot(s.user_id, "Podcast")
          matching == {r \in podcasts : MatchesDeclared(r)}
      IN /\ s.data.podcasts.played =
              Cardinality({r.metadata_id : r \in podcasts})
         /\ s.data.podcasts.played_episodes =
              Cardinality({<<r.metadata_id,
                             Unwrap(r.extra_information).episode>> :
                             r \in matching})
         /\ s.data.podcasts.runtime = SumOfPodcastRuntimes(matching)

\* two completed rows of episode 1 of podcast 2 (runtime 7)
C16_Witness ==
    \E s \in summary :
      /\ s.data.podcasts.played_episodes = 1
      /\ s.data.podcasts.runtime = 14
      /\ s.data.podcasts.played = 1

(* C17 as stated: in every summary row, shows.watched_seasons is the       *)
(* number of distinct (season, episode) pairs that the user's completed    *)
(* Show rows match.                                                        *)
C17_SeasonsArePairs ==
    \A s \in summary :
      LET matching == {r \in CompletedOfLot(s.user_id, "Show") :
                         MatchesDeclared(r)}
      IN s.data.shows.watched_seasons =
           Cardinality({<<Unwrap(r.extra_information).season,
                          Unwrap(r.extra_information).episode>> :
                          r \in matching})

(* C17, amended: in every summary row, shows.watched_seasons is the number *)
(* of distinct seasons (of distinct shows) in which the user's completed   *)
(* Show rows match an episode; two rows for two episodes of one season     *)
(* count 1.                                                                *)
C17_SeasonsAreSeasons ==
    \A s \in summary :
      LET matching == {r \in CompletedOfLot(s.user_id, "Show") :
                         MatchesDeclared(r)}
      IN s.data.shows.watched_seasons =
           Cardinality({<<r.metadata_id,
                          Unwrap(r.extra_information).season>> :
                          r \in matching})

\* two completed rows of the two episodes of season 1 of show 1
C17_Witness ==
    \E s \in summary :
      /\ s.data.shows.watched_episodes = 2
      /\ s.data.shows.watched_seasons = 1

\* a record that is not a completed record of user u
ForeignTo(u, r) == r.user_id # u \/ r.progress < 100

\* what such a record may hold: a show with or without locator or a book,
\* started by either user or completed by another one
ForeignContents(u) ==
    {c \in {SeenContent(v, ml[1], p, ml[2]) :
              v \in UserIds, p \in {60, 100},
              ml \in {<<1, ShowLocator(1, 1)>>, <<1, None>>, <<3, None>>}} :
       ForeignTo(u, c)}

\* the seen tables that differ from the stored one by one such record:
\* removed, added or changed
ForeignVariants(u) ==
    LET foreign == {r \in seen : ForeignTo(u, r)}
    IN {seen \ {r} : r \in foreign}
       \cup {seen \cup {SummarySeenRow(seen_id_seq + 1, c)} :
               c \in ForeignContents(u)}
       \cup {(seen \ {r}) \cup {SummarySeenRow(r.id, c)} :
               r \in foreign, c \in ForeignContents(u)}

(* C29: the summary of user U depends on U's seen records with progress    *)
(* 100 only: had a record with progress below 100, or a record of another  *)
(* user, been added, changed or removed, the recomputation would have      *)
(* given every counter of U's summary row the same value.                  *)
C29_SummaryOfOwnCompletedOnly ==
    \A s \in summary :
      \A S \in ForeignVariants(s.user_id) :
        LET ls == calculate_user_summary(S, s.user_id)
        IN ~ls.panicked /\ ls.data = s.data

\* the summary of a user who has a completed book and a started one, next
\* to the summary of the other user
C29_Witness ==
    \E s \in summary :
      /\ s.data.books.read = 1
      /\ \E r \in seen : r.user_id = s.user_id /\ r.progress < 100
      /\ \E t \in summary : t.user_id # s.user_id

\* the runtime of one declared episode that a matching Show row names
ShowEpisodeRuntime(r) ==
    LET seasons == MediaSpecifics[r.metadata_id].seasons
        l == Unwrap(r.extra_information)
        at == CHOOSE ij \in {<<i, j>> \in (DOMAIN seasons) \X (1..3) :
                               j \in DOMAIN seasons[i].episodes} :
                /\ seasons[ij[1]].season_number = l.season
                /\ seasons[ij[1]].episodes[ij[2]].episode_number = l.episode
        runtime == seasons[at[1]].episodes[at[2]].runtime
    IN IF runtime = None THEN 0 ELSE Unwrap(runtime)

RECURSIVE SumOfShowRuntimes(_)
SumOfShowRuntimes(rows) ==
    IF rows = {}
    THEN 0
    ELSE LET r == CHOOSE x \in rows : TRUE
         IN ShowEpisodeRuntime(r) + SumOfShowRuntimes(rows \ {r})

(* C30: in every summary row, each completed Show record of the user that  *)
(* names a declared episode adds exactly 1 to shows.watched_episodes and   *)
(* the runtime of one episode to shows.runtime, also when the metadata     *)
(* declares that (season number, episode number) more than once.           *)
C30_OncePerRecord ==
    \A s \in summary :
      LET matching == {r \in CompletedOfLot(s.user_id, "Show") :
                         MatchesDeclared(r)}
      IN /\ s.data.shows.watched_episodes = Cardinality(matching)
         /\ s.data.shows.runtime = SumOfShowRuntimes(matching)

(* C31: when two regenerate_user_summary requests of one user are served   *)
(* before either of their jobs has run, the user still has at most one     *)
(* summary row once every job has finished.                                *)
C31_AtMostOneRowOnceIdle ==
    (Idle /\ recalculate_user_summary = << >>)
        => \A u \in UserIds :
             Cardinality(SummaryRowsOf(summary, u)) <= 1

\* user u has a summary row that holds what calculate_user_summary gives on
\* the completed records
HasCurrentSummary(u) ==
    \E s \in SummaryRowsOf(summary, u) :
      s.data = calculate_user_summary(seen, u).data

(* C32: regenerate_user_summary deletes the user's summaries and enqueues  *)
(* one job without inserting a row; while the user has no row user_summary *)
(* answers with the all-zero default and no error; and, every enqueued job *)
(* being eventually executed, a job waiting for a user leads to a summary  *)
(* row of that user computed from the completed seen records.              *)
C32_DeferredRecomputation ==
    /\ [](\A u \in UserIds :
            (/\ ReturnedAlone("regenerate_user_summary")
             /\ last.user_id = u
             /\ last.kind = "Ok")
            => /\ summary = cleanup_summaries_for_user(last.before.summary, u)
               /\ recalculate_user_summary =
                    Append(last.before.recalculate_user_summary,
                           RecalculateUserSummaryJob(u))
               /\ summary_id_seq = last.before.summary_id_seq)
    /\ []((/\ last.op = "user_summary"
           /\ SummaryRowsOf(last.before.summary, last.user_id) = {})
          => (last.kind = "Ok" /\ last.media = SummaryDefault))
    /\ \A u \in UserIds :
         (PendingJobsOf(recalculate_user_summary, u) > 0)
            ~> HasCurrentSummary(u)

----------------------------------------------------------------------------
(* Vocabulary of the delete_seen_item properties *)

\* the memberships of metadata m in the "In Progress" collections of u
InProgressMemberships(C, rows, u, m) ==
    {x \in rows :
       /\ x.metadata_id = m
       /\ \E c \in C :
            c.id = x.collection_id /\ c.user_id = u /\ c.name = InProgress}

(* C18: delete_seen_item of a row owned by the caller succeeds and deletes *)
(* that row and no other; if the row's progress was below 100 the          *)
(* membership of its metadata in the caller's "In Progress" collection is  *)
(* removed, if there is one, and no other membership changes; if the       *)
(* progress was 100 no membership changes.                                 *)
C18_DeleteRemovesInProgress ==
    ReturnedAlone("delete_seen_item") =>
       \A si \in last.before.seen :
         (si.id = last.input.seen_id /\ si.user_id = last.user_id)
         => /\ seen = last.before.seen \ {si}
            /\ last.kind = "Ok" /\ last.id = si.id
            /\ metadata_to_collection =
                 IF si.progress < 100
                 THEN last.before.metadata_to_collection
                        \ InProgressMemberships(
                              last.before.collection,
                              last.before.metadata_to_collection,
                              si.user_id, si.metadata_id)
                 ELSE last.before.metadata_to_collection

----------------------------------------------------------------------------
(* Vocabulary of the merge_metadata properties *)

\* the rows of a table that reference metadata m
Referencing(rows, m) == {r \in rows : r.metadata_id = m}

\* new is old with another id and with its reference moved to m
MovedCopy(new, old, m) == new = [old EXCEPT !.id = new.id, !.metadata_id = m]

\* the rows of `after` that `before` did not hold are copies, under fresh
\* ids and referencing B, of the rows of `before` that referenced A: as
\* many copies of each as there were rows like it; the rows that did not
\* reference A are all still there, and the rows that did are gone
MovedAll(before, after, A, B) ==
    LET old == Referencing(before, A)
        new == after \ before
    IN /\ Referencing(after, A) = {}
       /\ before \cap after = before \ old
       /\ Cardinality(new) = Cardinality(old)
       /\ \A n \in new : \A b \in before : n.id # b.id
       /\ \A o \in old :
            Cardinality({n \in new : MovedCopy(n, o, B)})
              = Cardinality({x \in old :
                               [x EXCEPT !.id = o.id] = o})
       /\ Cardinality(Referencing(after, B))
            = Cardinality(Referencing(before, B)) + Cardinality(old)

(* C19: after a merge_metadata(A, B) with A # B that returns Ok, no seen   *)
(* or review row references A; each of the seen and review rows that       *)
(* referenced A has been replaced by a row that references B and agrees    *)
(* with it on every field but the id, so that B has gained exactly as many *)
(* seen and review rows as A had; and the metadata row A is gone.          *)
C19_MergeMovesEveryRow ==
    (/\ ReturnedAlone("merge_metadata")
     /\ last.kind = "Ok"
     /\ last.input.merge_from # last.input.merge_into)
    => LET A == last.input.merge_from
           B == last.input.merge_into
       IN /\ MovedAll(last.before.seen, seen, A, B)
          /\ MovedAll(last.before.review, review, A, B)
          /\ A \notin DOMAIN metadata

\* a merge has returned Ok after moving two seen rows and two review
\* rows, one of them posted with an identifier, of a metadata row that was
\* in a collection and associated with users: both loops went round
\* twice, and the rows that referenced A went with it
C19_Witness ==
    /\ ReturnedAlone("merge_metadata") /\ last.kind = "Ok"
    /\ LET A == last.input.merge_from
           B == last.input.merge_into
       IN /\ A # B
          /\ Cardinality(Referencing(last.before.seen, A)) >= 2
          /\ Cardinality(Referencing(last.before.review, A)) >= 2
          /\ \E r \in Referencing(last.before.review, A) :
                IsSome(r.identifier)
          /\ Referencing(last.before.metadata_to_collection, A) # {}
          /\ Referencing(last.before.user_to_metadata, A) # {}
          /\ Referencing(metadata_to_collection, A) = {}
          /\ Referencing(user_to_metadata, A) = {}
          /\ Cardinality(Referencing(seen, B)) >= 2
          /\ Cardinality(Referencing(review, B)) >= 2

(* C20: a merge_metadata that returns an error leaves the seen table, the  *)
(* review table and the metadata table exactly as they were before the     *)
(* call.                                                                   *)
C20_MergeAllOrNothing ==
    (ReturnedAlone("merge_metadata") /\ last.kind = "Err")
    => /\ seen = last.before.seen
       /\ review = last.before.review
       /\ metadata = last.before.metadata

----------------------------------------------------------------------------
(* C21: delete_collection with the name of a default collection returns    *)
(* the dedicated error and leaves the collections and the memberships as   *)
(* they were, whether or not the caller has such a collection; with any    *)
(* other name it deletes one collection of the caller of that name and     *)
(* returns true, or returns false and changes nothing when the caller has  *)
(* none.                                                                   *)
C21_DeleteCollection ==
    ReturnedAlone("delete_collection") =>
      LET name == last.input.name
          mine == collection_lookup(last.before.collection, last.user_id,
                                    name)
          unchanged ==
            /\ collection = last.before.collection
            /\ metadata_to_collection = last.before.metadata_to_collection
      IN IF name \in DefaultCollectionNames
         THEN /\ last.kind = "Err"
              /\ last.error = ErrDefaultCollection
              /\ unchanged
         ELSE IF mine = {}
         THEN /\ last.kind = "Ok"
              /\ last.resp = FALSE
              /\ unchanged
         ELSE /\ last.kind = "Ok"
              /\ last.resp = TRUE
              /\ \E c \in mine : collection = last.before.collection \ {c}
              /\ metadata_to_collection = last.before.metadata_to_collection

\* a default collection of the caller is still there after the refusal
C21_Witness ==
    /\ ReturnedAlone("delete_collection")
    /\ last.error = ErrDefaultCollection
    /\ collection_lookup(collection, last.user_id, last.input.name) # {}

\* the executions of user_created_job delivered for user u, and those of
\* them that have walked every default collection
UserCreatedRunsOf(u) ==
    {k \in DOMAIN user_created : user_created[k].user_id = u}

UserCreatedRunsDone(u) ==
    {k \in UserCreatedRunsOf(u) :
       user_created[k].col = Len(DefaultCollections) + 1}

SeededExactlyOnce(u) ==
    \A name \in DefaultCollectionNames :
      LET mine == collection_lookup(collection, u, name)
      IN /\ Cardinality(mine) = 1
         /\ \A c \in mine :
              c.description = Some(DefaultCollectionMeta(name))

(* C22: once user_created_job has run to its end for a user one or more    *)
(* times, interleaved executions included, the user owns exactly one       *)
(* collection of each default name, carrying that name's description.      *)
C22_SeededExactlyOnce ==
    \A u \in UserIds :
      (UserCreatedRunsOf(u) # {} /\
       UserCreatedRunsDone(u) = UserCreatedRunsOf(u))
          => SeededExactlyOnce(u)

(* C23: delete_seen_item by a user who does not own the record fails with  *)
(* the error of a record that is not the caller's and leaves the record    *)
(* and every membership as they were; with an id that no record has it     *)
(* fails with the error of a missing record and changes nothing.  The      *)
(* refusal is one statement, so this holds of every call, whatever runs    *)
(* beside it.                                                              *)
C23_DeleteRefused ==
    [][(now' = now + 1 /\ last'.op = "delete_seen_item") =>
         LET target == {r \in seen : r.id = last'.input.seen_id}
             found == {r \in last'.before.seen : r.id = last'.input.seen_id}
         IN /\ found = {} =>
                 /\ target = {}
                 /\ last'.kind = "Err"
                 /\ last'.error = ErrSeenMissing
                 /\ UNCHANGED <<seen, collection, metadata_to_collection>>
            /\ \A r \in found :
                 r.user_id # last'.user_id =>
                   /\ r \in target
                   /\ last'.kind = "Err"
                   /\ last'.error = ErrSeenNotOwned
                   /\ r \in seen'
                   /\ UNCHANGED <<seen, collection,
                                  metadata_to_collection>>]_vars

\* a started record of another user, with its membership, after the refusal
C23_Witness ==
    /\ last.op = "delete_seen_item"
    /\ last.error = ErrSeenNotOwned
    /\ \E r \in seen :
         /\ r.id = last.input.seen_id
         /\ r.user_id # last.user_id
         /\ r.progress < 100
         /\ \E c \in collection_lookup(collection, r.user_id, InProgress) :
              MetadataToCollection(r.metadata_id, c.id)
                  \in metadata_to_collection

----------------------------------------------------------------------------
(* C33: the default collections of a user being seeded, after any sequence *)
(* of create_or_update_collection calls, with or without update_id, and of *)
(* delete_collection calls by that user, the user owns a collection of     *)
(* every default name.                                                     *)
C33_DefaultCollectionsStay ==
    \A u \in EditCallers :
      \A name \in DefaultCollectionNames :
        collection_lookup(collection, u, name) # {}

(* C34: create_or_update_collection with an update_id that names a         *)
(* collection of another user fails with an error and leaves the name, the *)
(* description and the owner of that collection as they were.              *)
C34_UpdateOfForeignRefused ==
    ReturnedAlone("create_or_update_collection") =>
      \A r \in last.before.collection :
        (/\ last.input.update_id = Some(r.id)
         /\ r.user_id # last.user_id)
           => (last.kind = "Err" /\ r \in collection)

(* C38: after any sequence of create_or_update_collection calls of one     *)
(* user, that user owns no two collections of the same name: a create with *)
(* a name in use and no update_id inserts nothing, and an update through   *)
(* update_id gives no second collection a name the user already uses.      *)
C38_NoTwoOfOneName ==
    (Idle /\ last.alone) =>
      \A u \in EditCallers :
        \A c, d \in collection :
          (c.user_id = u /\ d.user_id = u /\ c.name = d.name) => c.id = d.id

Admins == {r \in user : r.lot = "Admin"}

RegisterRunsDone ==
    \A k \in DOMAIN register : register[k].pc = "done"

(* C35: after any sequence or interleaving of register_user calls exactly  *)
(* one user is Admin (as soon as there is a user) and no two users share a *)
(* username; with registration disabled no user is created and no          *)
(* UserCreatedJob is enqueued.                                             *)
C35_OneAdminUniqueNames ==
    /\ ~allow_registration => (user = {} /\ user_created = << >>)
    /\ RegisterRunsDone =>
         /\ user # {} => Cardinality(Admins) = 1
         /\ \A a, b \in user : a.name = b.name => a = b

----------------------------------------------------------------------------
\* the records that progress_update has written on metadata m, as the
\* AfterMediaSeenJob pushed for each of them shows
WrittenOn(m) ==
    {s \in {after_media_seen[k].seen : k \in DOMAIN after_media_seen} :
       s.metadata_id = m}

\* the record is now a row of metadata m: a row of its user with its dates
NowOn(s, m) ==
    \E r \in seen : /\ r.metadata_id = m
                    /\ r.user_id = s.user_id
                    /\ r.started_on = s.started_on
                    /\ r.extra_information = s.extra_information

\* the metadata that a merge has been asked to move away: the merge has
\* returned last, or it has deleted the row
MergedFrom ==
    {A \in RaceMetadataIds :
       \/ A \notin DOMAIN metadata
       \/ last.op = "merge_metadata" /\ last.input.merge_from = A}

(* C36: once a merge_metadata(A, B) and the progress_update calls that     *)
(* were served around and between its statements have completed, no seen   *)
(* row references A and every seen record that was written on A is a row   *)
(* of B.                                                                   *)
C36_NoRowLeftOnMergedMetadata ==
    Idle =>
      \A A \in MergedFrom :
        /\ \A r \in seen : r.metadata_id # A
        /\ \A s \in WrittenOn(A) :
             \A B \in RaceMetadataIds \ {A} : NowOn(s, B)

----------------------------------------------------------------------------
DistinctIntegrationIds(row) ==
    LET l == integrations_of(row)
    IN \A i, j \in DOMAIN l : l[i].id = l[j].id => i = j

YankLen(U, u) ==
    IF user_by_id(U, u) = {} THEN 0
    ELSE Len(integrations_of(CHOOSE r \in user_by_id(U, u) : TRUE))

(* C39: after any sequence of create_user_yank_integration and             *)
(* delete_user_yank_integration calls no two stored integrations of a user *)
(* have the same id, and a delete_user_yank_integration call removes at    *)
(* most one integration.                                                   *)
C39_IntegrationIdsDistinct ==
    /\ (Idle /\ last.alone) => \A row \in user : DistinctIntegrationIds(row)
    /\ ReturnedAlone("delete_user_yank_integration") =>
         YankLen(last.before.user, last.user_id)
           - YankLen(user, last.user_id) <= 1

----------------------------------------------------------------------------
\* an execution of update_exercise has returned, no other call or execution
\* was under way while it ran, and no identifier had two rows when it began
UpdateExerciseReturnedAlone ==
    /\ ReturnedAlone("update_exercise")
    /\ \A k \in DOMAIN Dataset :
         Cardinality({r \in last.before.exercise :
                        r.identifier = Dataset[k].identifier}) <= 1

ExerciseRowsOf(E, identifier) == {r \in E : r.identifier = identifier}

\* the jobs for the identifier that were executed before the one that has
\* returned
ExecutedBefore(identifier) ==
    {k \in DOMAIN update_exercise :
       /\ k # last.job
       /\ update_exercise[k].exercise.identifier = identifier
       /\ update_exercise[k].status \in {"Done", "Failed"}}

\* the execution that has returned has uploaded no file and inserted no row
NothingUploadedOrInserted ==
    /\ file_storage = last.before.file_storage
    /\ exercise = last.before.exercise

(* C40: after every sequential execution of the UpdateExerciseJob for an   *)
(* identifier exactly one exercise row has the identifier, and an          *)
(* execution that follows another one for the identifier uploads and       *)
(* inserts nothing.                                                        *)
C40_IdempotentAfterAnyExecution ==
    UpdateExerciseReturnedAlone
    => /\ Cardinality(ExerciseRowsOf(exercise, last.identifier)) = 1
       /\ ExecutedBefore(last.identifier) # {} => NothingUploadedOrInserted

====
